---- MODULE Spec2Model ----
(***************************************************************************)
(* docs.rs storage layer: the Storage facade (src/src/storage/mod.rs) over  *)
(* a relational or an object-storage backend (src/src/storage/s3.rs), the   *)
(* compression codec and the remote-archive layer with its local index      *)
(* cache; the build orchestrator (src/src/docbuilder/rustwide_builder.rs),  *)
(* the release records (src/src/db/add_package.rs), the target selection    *)
(* (src/src/docbuilder/metadata.rs) and the daemon (src/src/utils/daemon.rs).*)
(*                                                                          *)
(* A path is a tuple of one-character strings, so that prefix matching and  *)
(* SQL LIKE wildcards are decided character by character.  A payload is a   *)
(* tuple of byte values (naturals).                                         *)
(***************************************************************************)
EXTENDS Integers, Sequences, FiniteSets, TLC

VARIABLES
    backend,   \* StorageBackend chosen by Storage::new: "database" or "s3"
    store,     \* the blobs visible in the backend: a function from the stored paths to Blobs
    cache,     \* local_archive_cache_path of each Storage: inst -> (index path -> file bytes)
    tx,        \* the store/delete call in flight (its StorageTransaction), or Idle
    last,      \* the last completed store/delete call and its result
    hist,      \* history: what the calls so far were given (for stating the claims)
    nops,      \* number of mutating calls started
    build,     \* RustwideBuilder: the build_package call in flight and the last result
    db,        \* the relational tables written by db::add_package (crates, releases, builds, ...)
    uploaded,  \* prefixes under which add_path_into_database has stored a directory
    tc,        \* the rustup toolchain of the workspace and the update_toolchain call on it
    md,        \* a Metadata value and what Metadata::targets returns for it
    dm         \* the daemon process: its threads and the build queue

storageVars == <<backend, store, cache, tx, last, hist, nops>>

\* the builder, the toolchain, the metadata and the daemon
others == <<build, db, uploaded, tc, md, dm>>

vars == <<backend, store, cache, tx, last, hist, nops, build, db, uploaded, tc, md, dm>>

\* value of the variables of a component that takes no part in a specification
Off == "off"

StorageOff ==
    /\ backend = Off /\ store = Off /\ cache = Off /\ tx = Off
    /\ last = Off /\ hist = Off /\ nops = 0

BuilderOff == build = Off /\ db = Off /\ uploaded = Off

OthersOff == BuilderOff /\ tc = Off /\ md = Off /\ dm = Off

----------------------------------------------------------------------------
(* Bounds and program constants *)

\* mutating calls per behaviour
MaxOps == 2

\* length of the blob stream handed to store_blobs in SpecBatch
MaxBlobs == 2001

\* how far from a multiple of the batch size the stream lengths tried are
Margin == 5

\* const MAX_CONCURRENT_UPLOADS: usize = 1000;
MAX_CONCURRENT_UPLOADS == 1000

\* std::usize::MAX, as far as TLC's integers go
USIZE_MAX == 2147483647

None == "None"
Zstd == "Zstd"
Bzip2 == "Bzip2"

\* CompressionAlgorithm::default()
DefaultAlg == Zstd

Min(a, b) == IF a <= b THEN a ELSE b

----------------------------------------------------------------------------
(* Paths *)

Slash == <<"/">>
Foo == <<"f", "o", "o">>
Pct == <<"%">>
Bar == <<"b", "a", "r">>
BarTxt == <<"b", "a", "r", ".", "t", "x", "t">>
BazTxt == <<"b", "a", "z", ".", "t", "x", "t">>
DotIndex == <<".", "i", "n", "d", "e", "x">>
TestZip == <<"t", "e", "s", "t", ".", "z", "i", "p">>

BarBazTxt == Bar \o Slash \o BazTxt
PctBarTxt == Pct \o Slash \o BarTxt

\* files of a directory, relative to its root (get_file_list strips the root)
Files == {BarTxt, BarBazTxt, PctBarTxt}

\* prefixes handed to store_all
Prefixes == {<<>>, Foo}

\* Path::new(prefix).join(&file_path).to_slash(): no separator is added after an
\* empty prefix or after one that ends with a separator
PathJoin(prefix, file) ==
    IF prefix = <<>> THEN file
    ELSE IF prefix[Len(prefix)] = "/" THEN prefix \o file
    ELSE prefix \o Slash \o file

\* format!("{}.index", archive_path)
RemoteIndexPath(archive_path) == archive_path \o DotIndex

\* format!("{}/{}", archive_path, path)
ArchiveBlobPath(archive_path, path) == archive_path \o Slash \o path

ArchivePaths == {TestZip}

\* paths handed to store_one
OnePaths == {Foo \o Slash \o BazTxt, BarTxt}

Paths ==
    {PathJoin(p, f) : p \in Prefixes, f \in Files}
        \cup OnePaths
        \cup ArchivePaths
        \cup {RemoteIndexPath(a) : a \in ArchivePaths}

\* prefixes handed to delete_prefix
DeletePrefixes == {Foo \o Slash \o Bar \o Slash, Foo \o Slash \o Pct \o Slash, Foo \o Slash, TestZip}

HasPrefix(prefix, path) ==
    /\ Len(prefix) <= Len(path)
    /\ SubSeq(path, 1, Len(prefix)) = prefix

----------------------------------------------------------------------------
(* Compression codec: compress / decompress of storage::compression.       *)
(* A compressed stream is a one-byte magic number of the algorithm followed *)
(* by the run-length encoding of the payload as (count, value) pairs.       *)

Magic(alg) == IF alg = Zstd THEN 40 ELSE 66

RECURSIVE RunLength(_, _)
\* length of the run of equal bytes that starts at bytes[i]
RunLength(bytes, i) ==
    IF i < Len(bytes) /\ bytes[i + 1] = bytes[i]
    THEN 1 + RunLength(bytes, i + 1)
    ELSE 1

RECURSIVE RleEncode(_, _)
RleEncode(bytes, i) ==
    IF i > Len(bytes) THEN <<>>
    ELSE LET n == RunLength(bytes, i)
         IN  <<n, bytes[i]>> \o RleEncode(bytes, i + n)

compress(content, alg) == <<Magic(alg)>> \o RleEncode(content, 1)

RECURSIVE RleDecode(_, _, _, _)
\* the decoder writes run after run into a buffer limited to max_size bytes and
\* stops with SizeLimitReached at the first run that does not fit
RleDecode(data, i, out, max_size) ==
    IF i > Len(data) THEN [ok |-> TRUE, content |-> out]
    ELSE IF Len(out) + data[i] > max_size
         THEN [ok |-> FALSE, err |-> "SizeLimitReached"]
    ELSE RleDecode(data, i + 2, out \o [k \in 1..data[i] |-> data[i + 1]], max_size)

decompress(content, alg, max_size) ==
    IF Len(content) = 0 \/ content[1] # Magic(alg) \/ (Len(content) - 1) % 2 # 0
    THEN [ok |-> FALSE, err |-> "InvalidData"]
    ELSE RleDecode(content, 2, <<>>, max_size)

----------------------------------------------------------------------------
(* Functions with a finite domain: the files table / bucket, a cache dir *)

Empty == <<>>

Put(f, k, v) == [x \in DOMAIN f \cup {k} |-> IF x = k THEN v ELSE f[x]]

Remove(f, ks) == [x \in DOMAIN f \ ks |-> f[x]]

\* struct Blob (mime and date_updated play no part in what is checked here)
Blob(path, content, compression) ==
    [path |-> path, content |-> content, compression |-> compression]

Err(e) == [ok |-> FALSE, err |-> e]

\* FileRange::new / From<RangeInclusive<u64>>
FileRange(start, end) == [start |-> start, end |-> end, len |-> end - start + 1]

NoRange == [start |-> 0, end |-> 0, len |-> 0]

\* content[start..=end], cut at the end of the content (substring / byte range)
Slice(content, range) ==
    SubSeq(content, range.start + 1, Min(range.end + 1, Len(content)))

\* DatabaseBackend::get / S3Backend::get(path, max_size, range): the size limit is
\* applied to what the backend hands out, the bytes as they are stored
BackendGet(st, path, max_size, range) ==
    IF path \notin DOMAIN st THEN Err("PathNotFound")
    ELSE IF range = NoRange
         THEN IF Len(st[path].content) > max_size
              THEN Err("SizeLimitReached")
              ELSE [ok |-> TRUE, blob |-> st[path]]
    ELSE IF range.len > max_size THEN Err("SizeLimitReached")
    ELSE [ok |-> TRUE,
          blob |-> Blob(path, Slice(st[path].content, range), None)]

\* the decompression step shared by Storage::get and Storage::get_range
Inflate(r, alg, max_size) ==
    IF ~r.ok \/ alg = None THEN r
    ELSE LET d == decompress(r.blob.content, alg, max_size)
         IN  IF ~d.ok THEN d
             ELSE [ok |-> TRUE, blob |-> Blob(r.blob.path, d.content, None)]

StorageGet_Raw(st, path, max_size) == BackendGet(st, path, max_size, NoRange)

\* Storage::get
StorageGet(st, path, max_size) ==
    LET r == BackendGet(st, path, max_size, NoRange)
    IN  IF r.ok THEN Inflate(r, r.blob.compression, max_size) ELSE r

StorageGetRange_Raw(st, path, max_size, range, compression) ==
    BackendGet(st, path, max_size, range)

\* Storage::get_range
StorageGetRange(st, path, max_size, range, compression) ==
    Inflate(BackendGet(st, path, max_size, range), compression, max_size)

----------------------------------------------------------------------------
(* Archive layer: the ZIP container and storage::archive_index *)

\* a file name as it is written into the ZIP and the index
FileId(f) == IF f = BarTxt THEN 1 ELSE IF f = BarBazTxt THEN 2 ELSE 3

FileOfId(n) == IF n = 1 THEN BarTxt ELSE IF n = 2 THEN BarBazTxt ELSE PctBarTxt

AlgCode(alg) == IF alg = Zstd THEN 0 ELSE 1

AlgOfCode(n) == IF n = 0 THEN Zstd ELSE Bzip2

\* zip.start_file: the local file header that precedes the file's stream
LocalHeader(f) == <<80, FileId(f)>>

RECURSIVE ZipEntries(_, _, _)
\* zip.start_file + io::copy for the files in the order get_file_list gave them,
\* from byte offset `at`: the bytes written and the central directory records
ZipEntries(dir, order, at) ==
    IF order = <<>> THEN [bytes |-> <<>>, cd |-> <<>>]
    ELSE LET f == Head(order)
             data == compress(dir[f].bytes, Bzip2)
             start == at + Len(LocalHeader(f))
             rest == ZipEntries(dir, Tail(order), start + Len(data))
         IN  [bytes |-> LocalHeader(f) \o data \o rest.bytes,
              cd |-> <<FileId(f), start, start + Len(data) - 1>> \o rest.cd]

\* zip.finish(): the entries, the central directory, the count of entries
ZipFinish(dir, order) ==
    LET z == ZipEntries(dir, order, 0)
    IN  z.bytes \o z.cd \o <<Len(order)>>

\* archive_index::Index::new_from_zip: one record per central directory entry
IndexFromZip(zip) ==
    LET n == zip[Len(zip)]
        cd == Len(zip) - 1 - 3 * n
    IN  [k \in 1..n |->
            [name |-> FileOfId(zip[cd + 3 * (k - 1) + 1]),
             range |-> FileRange(zip[cd + 3 * (k - 1) + 2], zip[cd + 3 * (k - 1) + 3]),
             compression |-> Bzip2]]

RECURSIVE IndexRecords(_, _)
IndexRecords(index, k) ==
    IF k > Len(index) THEN <<>>
    ELSE <<FileId(index[k].name), index[k].range.start, index[k].range.end,
           AlgCode(index[k].compression)>> \o IndexRecords(index, k + 1)

\* Index::save: the count of records, then the records
IndexSave(index) == <<Len(index)>> \o IndexRecords(index, 1)

\* Index::load
IndexLoad(bytes) ==
    IF Len(bytes) = 0 \/ Len(bytes) # 1 + 4 * bytes[1]
    THEN Err("InvalidArchiveIndex")
    ELSE [ok |-> TRUE,
          index |-> [k \in 1..bytes[1] |->
                [name |-> FileOfId(bytes[4 * (k - 1) + 2]),
                 range |-> FileRange(bytes[4 * (k - 1) + 3], bytes[4 * (k - 1) + 4]),
                 compression |-> AlgOfCode(bytes[4 * (k - 1) + 5])]]]

\* Index::find_file
FindFile(index, path) ==
    IF \E k \in DOMAIN index : index[k].name = path
    THEN [ok |-> TRUE, info |-> index[CHOOSE k \in DOMAIN index : index[k].name = path]]
    ELSE Err("PathNotFound")

\* Storage::get_index_for on the cache directory c: the result, and the cache after it
GetIndexFor(c, st, archive_path) ==
    LET remote_index_path == RemoteIndexPath(archive_path)
    IN  IF remote_index_path \in DOMAIN c
        THEN [res |-> IndexLoad(c[remote_index_path]), cache |-> c]
        ELSE LET got == StorageGet(st, remote_index_path, USIZE_MAX)
             IN  IF ~got.ok THEN [res |-> got, cache |-> c]
                 ELSE [res |-> IndexLoad(got.blob.content),
                       cache |-> Put(c, remote_index_path, got.blob.content)]

\* Storage::exists_in_archive: Ok(bool) or the error of get_index_for
ExistsInArchive(c, st, archive_path, path) ==
    LET ix == GetIndexFor(c, st, archive_path).res
    IN  IF ~ix.ok THEN ix
        ELSE [ok |-> TRUE, value |-> FindFile(ix.index, path).ok]

\* Storage::get_from_archive
GetFromArchive(c, st, archive_path, path, max_size) ==
    LET ix == GetIndexFor(c, st, archive_path).res
    IN  IF ~ix.ok THEN ix
        ELSE LET info == FindFile(ix.index, path)
             IN  IF ~info.ok THEN info
                 ELSE LET blob == StorageGetRange(st, archive_path, max_size,
                                      info.info.range, info.info.compression)
                      IN  IF ~blob.ok THEN blob
                          ELSE [ok |-> TRUE,
                                blob |-> Blob(ArchiveBlobPath(archive_path, path),
                                              blob.blob.content, None)]

----------------------------------------------------------------------------
(* Inputs *)

\* Storage instances, each with its own local_archive_cache_path: the builder's
\* (1), which is the one that stores, and the web server's (2), which only reads
Instances == {1, 2}

Builders == {1}

File(bytes) == [bytes |-> bytes, readable |-> TRUE]

\* a file fs::File::open fails on (insufficient permissions)
Unreadable == [bytes |-> <<>>, readable |-> FALSE]

\* directories handed to store_all and store_all_in_archive: file -> state
Dirs ==
    {Empty,
     BarTxt :> File(<<0>>),
     BarTxt :> File(<<1, 1>>) @@ BarBazTxt :> File(<<>>),
     BarTxt :> File(<<0>>) @@ PctBarTxt :> File(<<1, 1>>),
     BarTxt :> File(<<0>>) @@ BarBazTxt :> Unreadable}

\* payloads handed to store_one
Contents == {<<0>>, <<1, 1>>}

\* max_size values handed to get
MaxSizes == {0, 1, 2, 3, USIZE_MAX}

\* get_file_list: the files in the order read_dir yields them, which is any order
FileLists(dir) ==
    {o \in [1..Cardinality(DOMAIN dir) -> DOMAIN dir] :
        \A i, j \in DOMAIN o : i # j => o[i] # o[j]}

----------------------------------------------------------------------------
(* The call in flight *)

Idle == [pc |-> "idle"]

NoCall == [op |-> "none", res |-> "none"]

\* Storage::store_inner entered: the transaction is started, nothing is handed out yet
Begin(op, inst, arg, blobs) ==
    [op |-> op, inst |-> inst, arg |-> arg, pc |-> "take",
     stream |-> blobs, pending |-> blobs, batch |-> <<>>, batches |-> <<>>,
     returned |-> 0, attempts |-> 0, issued |-> <<>>, allOk |-> FALSE,
     work |-> store, written |-> {}, completeCalls |-> 0, before |-> store]

\* what is kept of a call once it has returned (or panicked)
Finished(t, res) ==
    [op |-> t.op, inst |-> t.inst, arg |-> t.arg, res |-> res,
     handed |-> Len(t.batches), returned |-> t.returned, attempts |-> t.attempts,
     completeCalls |-> t.completeCalls, before |-> t.before]

BatchPaths(batch, ok) == {batch[i].path : i \in ok}

\* the blobs of `batch` at the positions `ok` written over st (the paths of one
\* batch are distinct: they are the files of one directory tree)
PutAll(st, batch, ok) ==
    [x \in DOMAIN st \cup BatchPaths(batch, ok) |->
        IF x \in BatchPaths(batch, ok)
        THEN batch[CHOOSE i \in ok : batch[i].path = x]
        ELSE st[x]]

----------------------------------------------------------------------------
(* Storage::store_one *)

store_one(path, content) ==
    /\ tx.pc = "idle"
    /\ nops < MaxOps
    /\ tx' = Begin("store_one", 0, [path |-> path, content |-> content],
                   <<Blob(path, compress(content, DefaultAlg), DefaultAlg)>>)
    /\ last' = NoCall
    /\ nops' = nops + 1
    /\ UNCHANGED <<backend, store, cache, hist, others>>

RECURSIVE StoreAllBlobs(_, _, _)
\* the blob stream of store_all: files that cannot be opened are skipped, the
\* others compressed with the default algorithm and placed under the prefix
StoreAllBlobs(prefix, dir, files) ==
    IF files = <<>> THEN <<>>
    ELSE LET f == Head(files)
             rest == StoreAllBlobs(prefix, dir, Tail(files))
         IN  IF dir[f].readable
             THEN <<Blob(PathJoin(prefix, f), compress(dir[f].bytes, DefaultAlg), DefaultAlg)>>
                      \o rest
             ELSE rest

(* Storage::store_all *)
store_all(prefix, dir) ==
    /\ tx.pc = "idle"
    /\ nops < MaxOps
    /\ \E files \in FileLists(dir) :
          tx' = Begin("store_all", 0, [prefix |-> prefix, dir |-> dir],
                      StoreAllBlobs(prefix, dir, files))
    /\ last' = NoCall
    /\ nops' = nops + 1
    /\ UNCHANGED <<backend, store, cache, hist, others>>

(* Storage::store_all_in_archive *)
store_all_in_archive(inst, archive_path, dir) ==
    /\ tx.pc = "idle"
    /\ nops < MaxOps
    /\ nops' = nops + 1
    /\ IF \E f \in DOMAIN dir : ~dir[f].readable
       THEN \* fs::File::open(root_dir.join(&file_path))? returns the error
            /\ tx' = Idle
            /\ last' = Finished(Begin("store_all_in_archive", inst,
                                      [archive_path |-> archive_path, dir |-> dir], <<>>),
                                "Err")
            /\ UNCHANGED <<cache, hist>>
       ELSE \E files \in FileLists(dir) :
            LET zip_content == ZipFinish(dir, files)
                index == IndexFromZip(zip_content)
                index_content == IndexSave(index)
                compressed_index_content == compress(index_content, DefaultAlg)
                remote_index_path == RemoteIndexPath(archive_path)
            IN  \* the index goes to the local cache first, then both blobs are stored
                /\ cache' = [cache EXCEPT ![inst] =
                                Put(Remove(@, {remote_index_path}),
                                    remote_index_path, index_content)]
                /\ tx' = Begin("store_all_in_archive", inst,
                               [archive_path |-> archive_path, dir |-> dir],
                               <<Blob(archive_path, zip_content, None),
                                 Blob(remote_index_path, compressed_index_content,
                                      DefaultAlg)>>)
                /\ last' = NoCall
                /\ hist' = [hist EXCEPT !.archived = Put(@, archive_path, dir)]
    /\ UNCHANGED <<backend, store, others>>

----------------------------------------------------------------------------
(* Storage::store_inner, Storage::transaction and the backends' store_batch *)

Take_OneMore(pending) == SubSeq(pending, 1, Min(MAX_CONCURRENT_UPLOADS + 1, Len(pending)))

\* blobs.by_ref().take(MAX_CONCURRENT_UPLOADS)
Take(pending) == SubSeq(pending, 1, Min(MAX_CONCURRENT_UPLOADS, Len(pending)))

Rest(pending) == SubSeq(pending, Len(Take(pending)) + 1, Len(pending))

\* one round of the loop of store_inner up to the call of store_batch
TakeBatch ==
    /\ tx.pc = "take"
    /\ LET batch == Take(tx.pending)
       IN  tx' = IF batch = <<>>
                 THEN [tx EXCEPT !.pc = "complete", !.batch = <<>>,
                                 !.attempts = 0, !.issued = <<>>, !.allOk = FALSE]
                 ELSE [tx EXCEPT !.pc = "store", !.batch = batch,
                                 !.pending = Rest(tx.pending),
                                 !.batches = Append(@, batch),
                                 !.attempts = 0, !.issued = <<>>, !.allOk = FALSE]
    /\ UNCHANGED <<backend, store, cache, last, hist, nops, others>>

\* the relational backend's store_batch: upserts inside the open transaction, or an
\* error that ends the call with the transaction rolled back
DbStoreBatch ==
    /\ tx.pc = "store"
    /\ backend = "database"
    /\ \/ /\ tx' = [tx EXCEPT !.pc = "take", !.returned = @ + 1,
                              !.work = PutAll(@, tx.batch, DOMAIN tx.batch),
                              !.written = @ \cup BatchPaths(tx.batch, DOMAIN tx.batch)]
          /\ UNCHANGED last
       \/ /\ tx' = Idle
          /\ last' = Finished(tx, "Err")
    /\ UNCHANGED <<backend, store, cache, hist, nops, others>>

S3GiveUp_FourAttempts(attempts) == attempts > 3

\* if attempts > 2 { panic!("failed to upload 3 times, exiting") }
S3GiveUp(attempts) == attempts > 2

\* one round of the loop of S3Backend::store_batch: a put_object for every blob of
\* the batch, run together; `ok` are the requests that succeeded.  tx.issued lists,
\* round by round, the paths a request was made for, tx.allOk tells whether every
\* request of the latest round succeeded
S3StoreBatch ==
    /\ tx.pc = "store"
    /\ backend = "s3"
    /\ \E ok \in SUBSET DOMAIN tx.batch :
          LET attempts == tx.attempts + 1
              t == [tx EXCEPT !.attempts = attempts,
                              !.issued = Append(@, BatchPaths(tx.batch, DOMAIN tx.batch)),
                              !.allOk = (ok = DOMAIN tx.batch)]
          IN  /\ store' = PutAll(store, tx.batch, ok)
              /\ hist' = [hist EXCEPT !.expected = @ \cup BatchPaths(tx.batch, ok)]
              /\ IF ok = DOMAIN tx.batch
                 THEN /\ tx' = [t EXCEPT !.pc = "take", !.returned = @ + 1]
                      /\ UNCHANGED last
                 ELSE IF S3GiveUp(attempts)
                 THEN /\ tx' = Idle
                      /\ last' = Finished(t, "Panic")
                 ELSE /\ tx' = t
                      /\ UNCHANGED last
    /\ UNCHANGED <<backend, cache, nops, others>>

Complete_NoCommit ==
    /\ tx.pc = "complete"
    /\ hist' = [hist EXCEPT !.expected = @ \cup tx.written]
    /\ last' = Finished([tx EXCEPT !.completeCalls = @ + 1], "Ok")
    /\ tx' = Idle
    /\ UNCHANGED <<backend, store, cache, nops, others>>

\* trans.complete() at the end of Storage::transaction: the relational backend
\* commits, the object storage has nothing left to do
Complete ==
    /\ tx.pc = "complete"
    /\ store' = IF backend = "database" THEN tx.work ELSE store
    /\ hist' = [hist EXCEPT !.expected = @ \cup tx.written]
    /\ last' = Finished([tx EXCEPT !.completeCalls = @ + 1], "Ok")
    /\ tx' = Idle
    /\ UNCHANGED <<backend, cache, nops, others>>

----------------------------------------------------------------------------
(* Storage::delete_prefix *)

RECURSIVE Like(_, _)
\* the LIKE operator: % matches any run of characters, _ any one character, and
\* a backslash makes the character after it literal
Like(s, pat) ==
    IF pat = <<>> THEN s = <<>>
    ELSE IF pat[1] = "\\" /\ Len(pat) >= 2
         THEN s # <<>> /\ s[1] = pat[2] /\ Like(Tail(s), SubSeq(pat, 3, Len(pat)))
    ELSE IF pat[1] = "%"
         THEN Like(s, Tail(pat)) \/ (s # <<>> /\ Like(Tail(s), pat))
    ELSE IF pat[1] = "_"
         THEN s # <<>> /\ Like(Tail(s), Tail(pat))
    ELSE s # <<>> /\ s[1] = pat[1] /\ Like(Tail(s), Tail(pat))

RECURSIVE LikeEscape(_)
\* the wildcards of the prefix, and the escape character itself, escaped
LikeEscape(prefix) ==
    IF prefix = <<>> THEN <<>>
    ELSE IF prefix[1] \in {"\\", "%", "_"}
         THEN <<"\\", prefix[1]>> \o LikeEscape(Tail(prefix))
    ELSE <<prefix[1]>> \o LikeEscape(Tail(prefix))

\* relational backend: DELETE FROM files WHERE path LIKE '<escaped prefix>%'
DbDeletePrefix(st, prefix) ==
    Remove(st, {p \in DOMAIN st : Like(p, LikeEscape(prefix) \o <<"%">>)})

\* object storage: the objects listed under the prefix are deleted
S3DeletePrefix(st, prefix) ==
    Remove(st, {p \in DOMAIN st : HasPrefix(prefix, p)})

Transaction_NoComplete(ok, staged) ==
    [res |-> IF ok THEN "Ok" ELSE "Err", store |-> store, completeCalls |-> 0]

\* Storage::transaction around a closure that is one backend call: `staged` is the
\* store as the closure leaves it inside the transaction; complete() follows only
\* the closure's Ok, and what an abandoned transaction staged is dropped
Transaction(ok, staged) ==
    IF ok
    THEN [res |-> "Ok", store |-> staged, completeCalls |-> 1]
    ELSE [res |-> "Err", store |-> store, completeCalls |-> 0]

delete_prefix(prefix) ==
    /\ tx.pc = "idle"
    /\ nops < MaxOps
    /\ nops' = nops + 1
    /\ \E ok \in BOOLEAN :
          LET staged == IF backend = "database"
                        THEN DbDeletePrefix(store, prefix)
                        ELSE S3DeletePrefix(store, prefix)
              r == Transaction(ok, staged)
          IN  /\ store' = r.store
              /\ last' = [Finished(Begin("delete_prefix", 0, [prefix |-> prefix], <<>>),
                                   r.res)
                            EXCEPT !.completeCalls = r.completeCalls]
              /\ hist' = [hist EXCEPT
                            !.deleted = TRUE,
                            !.expected = IF r.res = "Ok"
                                         THEN {p \in @ : ~HasPrefix(prefix, p)}
                                         ELSE @]
    /\ UNCHANGED <<backend, cache, tx, others>>

----------------------------------------------------------------------------
(* Reads through the archive index: they fill the local cache on a miss *)

exists_in_archive(inst, archive_path, path) ==
    /\ tx.pc = "idle"
    /\ cache' = [cache EXCEPT ![inst] = GetIndexFor(@, store, archive_path).cache]
    /\ UNCHANGED <<backend, store, tx, last, hist, nops, others>>

get_from_archive(inst, archive_path, path, max_size) ==
    /\ tx.pc = "idle"
    /\ cache' = [cache EXCEPT ![inst] = GetIndexFor(@, store, archive_path).cache]
    /\ UNCHANGED <<backend, store, tx, last, hist, nops, others>>

----------------------------------------------------------------------------
(* The storage of one deployment: calls one after the other *)

Init ==
    /\ backend \in {"database", "s3"}
    /\ store = Empty
    /\ cache = [i \in Instances |-> Empty]
    /\ tx = Idle
    /\ last = NoCall
    /\ hist = [expected |-> {}, archived |-> Empty, deleted |-> FALSE]
    /\ nops = 0
    /\ OthersOff

Next ==
    \/ \E path \in OnePaths, content \in Contents : store_one(path, content)
    \/ \E prefix \in Prefixes, dir \in Dirs : store_all(prefix, dir)
    \/ \E inst \in Builders, a \in ArchivePaths, dir \in Dirs :
          store_all_in_archive(inst, a, dir)
    \/ TakeBatch
    \/ DbStoreBatch
    \/ S3StoreBatch
    \/ Complete
    \/ \E prefix \in DeletePrefixes : delete_prefix(prefix)
    \/ \E inst \in Instances, a \in ArchivePaths, f \in Files :
          exists_in_archive(inst, a, f)
    \/ \E inst \in Instances, a \in ArchivePaths, f \in Files :
          get_from_archive(inst, a, f, USIZE_MAX)

Spec == Init /\ [][Next]_vars

----------------------------------------------------------------------------
(* test_batched_uploads: one store_blobs call with a stream of n blobs on the  *)
(* relational backend                                                          *)

\* path "{i}.rs" with content "const IDX: usize = {i};"
IdxBlob(i) == Blob(<<i>>, <<i>>, None)

\* stream lengths around the multiples of the batch size
BlobCounts ==
    {n \in 0..MaxBlobs :
        \/ n % MAX_CONCURRENT_UPLOADS <= Margin
        \/ n % MAX_CONCURRENT_UPLOADS >= MAX_CONCURRENT_UPLOADS - Margin}

store_blobs(n) ==
    /\ tx.pc = "idle"
    /\ nops = 0
    /\ tx' = Begin("store_blobs", 0, [n |-> n], [i \in 1..n |-> IdxBlob(i)])
    /\ last' = NoCall
    /\ nops' = nops + 1
    /\ UNCHANGED <<backend, store, cache, hist, others>>

InitBatch ==
    /\ backend = "database"
    /\ store = Empty
    /\ cache = [i \in Instances |-> Empty]
    /\ tx = Idle
    /\ last = NoCall
    /\ hist = [expected |-> {}, archived |-> Empty, deleted |-> FALSE]
    /\ nops = 0
    /\ OthersOff

NextBatch ==
    \/ \E n \in BlobCounts : store_blobs(n)
    \/ TakeBatch
    \/ DbStoreBatch
    \/ Complete

SpecBatch == InitBatch /\ [][NextBatch]_vars

----------------------------------------------------------------------------
(* Claims *)

StoreOps == {"store_one", "store_all", "store_all_in_archive", "store_blobs"}

\* C1: after store_all(p, D) has returned Ok, get(p/f, MAX) of every readable file
\* f of D returns the blob at path p/f whose content is the bytes of f, already
\* decompressed (compression None); after store_one(path, bytes) has returned Ok,
\* get(path, MAX) returns exactly bytes.
C1_StoreGetRoundTrip ==
    /\ (last.op = "store_all" /\ last.res = "Ok") =>
          \A f \in DOMAIN last.arg.dir :
              last.arg.dir[f].readable =>
                  LET p == PathJoin(last.arg.prefix, f)
                      got == StorageGet(store, p, USIZE_MAX)
                  IN  got.ok /\ got.blob = Blob(p, last.arg.dir[f].bytes, None)
    /\ (last.op = "store_one" /\ last.res = "Ok") =>
          LET got == StorageGet(store, last.arg.path, USIZE_MAX)
          IN  got.ok /\ got.blob = Blob(last.arg.path, last.arg.content, None)

\* a store_all of a directory with a readable and an unreadable file has returned Ok
C1_Witness ==
    /\ last.op = "store_all"
    /\ last.res = "Ok"
    /\ last.arg.prefix = Foo
    /\ \E f, g \in DOMAIN last.arg.dir :
          /\ last.arg.dir[f].readable
          /\ last.arg.dir[f].bytes # <<>>
          /\ ~last.arg.dir[g].readable
    /\ Foo \o Slash \o BarTxt \in DOMAIN store

OriginalBytes(a, f) == hist.archived[a][f].bytes

\* C3: between calls, after any sequence of store_all_in_archive calls (returning Ok
\* or failing while writing to the backend) and reads, exists_in_archive(a, f) returns
\* true exactly when get_from_archive(a, f, MAX) returns the original bytes of f.
C3_ExistsIffGet ==
    (tx.pc = "idle" /\ ~hist.deleted) =>
        \A i \in Instances, a \in ArchivePaths, f \in Files :
            LET e == ExistsInArchive(cache[i], store, a, f)
                got == GetFromArchive(cache[i], store, a, f, USIZE_MAX)
            IN  (e.ok /\ e.value) <=>
                    /\ got.ok
                    /\ a \in DOMAIN hist.archived
                    /\ f \in DOMAIN hist.archived[a]
                    /\ got.blob.content = OriginalBytes(a, f)

\* C4: between calls, whenever a blob written by store_all_in_archive exists at
\* archive path P, a blob exists at P.index and decodes to the index of that archive,
\* also after a store_all_in_archive whose upload failed part-way.
C4_ArchiveHasIndex ==
    tx.pc = "idle" =>
        \A a \in ArchivePaths :
            a \in DOMAIN store =>
                /\ RemoteIndexPath(a) \in DOMAIN store
                /\ LET ix == StorageGet(store, RemoteIndexPath(a), USIZE_MAX)
                   IN  /\ ix.ok
                       /\ IndexLoad(ix.blob.content) =
                              [ok |-> TRUE, index |-> IndexFromZip(store[a].content)]

RECURSIVE Flatten(_)
Flatten(batches) ==
    IF batches = <<>> THEN <<>> ELSE Head(batches) \o Flatten(Tail(batches))

\* C5: store_inner cuts the stream into consecutive batches of 1 to 1000 blobs in
\* input order, a batch is handed to store_batch only when every earlier batch has
\* returned, complete() is not called before the last batch has returned and is
\* called exactly once then, and after the call every one of the N blobs is
\* retrievable with its own content, also when N > 1000.
C5_BatchedUploads ==
    /\ tx.pc # "idle" =>
          /\ \A k \in DOMAIN tx.batches :
                Len(tx.batches[k]) \in 1..MAX_CONCURRENT_UPLOADS
          /\ Flatten(tx.batches) \o tx.pending = tx.stream
          /\ tx.returned = Len(tx.batches) - (IF tx.pc = "store" THEN 1 ELSE 0)
          /\ tx.completeCalls = 0
          /\ tx.pc = "complete" => tx.pending = <<>> /\ tx.returned = Len(tx.batches)
    /\ (last.op = "store_blobs" /\ last.res = "Ok") =>
          /\ last.completeCalls = 1
          /\ last.returned = last.handed
          /\ last.handed * MAX_CONCURRENT_UPLOADS >= last.arg.n
          /\ \A i \in 1..last.arg.n :
                LET got == StorageGet(store, IdxBlob(i).path, USIZE_MAX)
                IN  got.ok /\ got.blob = IdxBlob(i)

\* a stream of more than two full batches has been stored
C5_Witness ==
    /\ last.op = "store_blobs"
    /\ last.res = "Ok"
    /\ last.arg.n > 2 * MAX_CONCURRENT_UPLOADS
    /\ last.handed = 3

\* C6: when a store_one, store_all or store_all_in_archive call fails, complete()
\* has not been invoked and the store holds what it held before the call (none of
\* the call's blobs is visible), on both backends.
C6_AllOrNothing ==
    (last.op \in StoreOps /\ last.res # "Ok") =>
        /\ last.completeCalls = 0
        /\ store = last.before

\* C7: the object storage's store_batch makes at most 3 attempts for a batch, every
\* attempt issues an upload for every blob of the batch, it returns as soon as an
\* attempt uploaded every blob and only then, it retries only after a failed attempt,
\* and after the third failed attempt the store operation ends without complete()
\* and without an Ok.
C7_ThreeAttempts ==
    backend = "s3" =>
        /\ tx.pc \in {"store", "take"} =>
              /\ tx.attempts <= 3
              /\ Len(tx.issued) = tx.attempts
              /\ \A k \in DOMAIN tx.issued :
                    tx.issued[k] = BatchPaths(tx.batch, DOMAIN tx.batch)
              /\ (tx.pc = "store" /\ tx.attempts > 0) => ~tx.allOk /\ tx.attempts < 3
              /\ (tx.pc = "take" /\ tx.attempts > 0) => tx.allOk
        /\ (last.op \in StoreOps /\ last.res = "Panic") =>
              /\ last.attempts = 3
              /\ last.returned < last.handed
              /\ last.completeCalls = 0
        /\ (last.op \in StoreOps /\ last.res = "Ok") =>
              /\ last.returned = last.handed
              /\ last.attempts <= 3

\* a store operation on the object storage has ended after three failed attempts
C7_Witness ==
    /\ backend = "s3"
    /\ last.op = "store_all"
    /\ last.res = "Panic"
    /\ last.attempts = 3

\* C8: for every stored blob and every max_size, get(path, max_size) returns the
\* whole payload when the decompressed payload is at most max_size bytes long and
\* fails with the size-limit error when it is longer.
C8_SizeLimit ==
    \A p \in DOMAIN store, max_size \in MaxSizes :
        LET whole == StorageGet(store, p, USIZE_MAX)
            got == StorageGet(store, p, max_size)
        IN  whole.ok =>
                IF Len(whole.blob.content) <= max_size
                THEN got.ok /\ got.blob.content = whole.blob.content
                ELSE ~got.ok /\ got.err = "SizeLimitReached"

Ranges == {FileRange(0, 0), FileRange(0, 1), FileRange(1, 2)}

C10_DeletePrefix ==
    (last.op = "delete_prefix" /\ last.res = "Ok") =>
        /\ DOMAIN store \subseteq DOMAIN last.before
        /\ \A p \in DOMAIN last.before :
              IF HasPrefix(last.arg.prefix, p)
              THEN p \notin DOMAIN store
              ELSE /\ p \in DOMAIN store
                   /\ store[p] = last.before[p]
                   /\ StorageGet(store, p, USIZE_MAX).ok

\* delete_prefix("foo/%/") has removed foo/%/bar.txt and kept foo/bar.txt
C10_Witness ==
    /\ last.op = "delete_prefix"
    /\ last.res = "Ok"
    /\ last.arg.prefix = Foo \o Slash \o Pct \o Slash
    /\ Foo \o Slash \o PctBarTxt \in DOMAIN last.before
    /\ Foo \o Slash \o PctBarTxt \notin DOMAIN store
    /\ Foo \o Slash \o BarTxt \in DOMAIN store

----------------------------------------------------------------------------
(* Metadata::targets (src/src/docbuilder/metadata.rs)                       *)
(*                                                                          *)
(* A target triple is written as its rank in the lexicographic order of the *)
(* triples that occur, which is the order Vec<&str>::sort puts them in:     *)
(*   0 aarch64-unknown-linux-gnu   1 i686-apple-darwin                      *)
(*   2 i686-pc-windows-msvc        3 i686-unknown-linux-gnu                 *)
(*   4 x86_64-apple-darwin         5 x86_64-pc-windows-msvc                 *)
(*   6 x86_64-unknown-linux-gnu                                             *)

\* length of the `targets` array of [package.metadata.docs.rs]
MaxTargetsLen == 3

\* "x86_64-unknown-linux-gnu", the target docs.rs runs on
HOST_TARGET == 6

\* const TARGETS: the targets supported by docs.rs
TARGETS == <<1, 2, 3, 4, 5, 6>>

\* the target triples a manifest names in the cases tried
TargetUniverse == {0, 2, 5, HOST_TARGET}

\* Option<T>
NoneOpt == [some |-> FALSE]
Some(v) == [some |-> TRUE, v |-> v]

Range(seq) == {seq[i] : i \in DOMAIN seq}

\* Vec::swap_remove(index), on a 1-based index: the last element takes the place
\* of the removed one
SwapRemove(seq, i) ==
    IF i = Len(seq) THEN SubSeq(seq, 1, Len(seq) - 1)
    ELSE SubSeq([seq EXCEPT ![i] = seq[Len(seq)]], 1, Len(seq) - 1)

RECURSIVE InsertSorted(_, _)
InsertSorted(x, sorted) ==
    IF sorted = <<>> THEN <<x>>
    ELSE IF x <= Head(sorted) THEN <<x>> \o sorted
    ELSE <<Head(sorted)>> \o InsertSorted(x, Tail(sorted))

RECURSIVE Sort(_)
\* Vec::sort
Sort(seq) == IF seq = <<>> THEN <<>> ELSE InsertSorted(Head(seq), Sort(Tail(seq)))

RECURSIVE Dedup(_)
\* Vec::dedup: of consecutive equal elements the first is kept
Dedup(seq) ==
    IF Len(seq) <= 1 THEN seq
    ELSE IF seq[1] = seq[2] THEN Dedup(Tail(seq))
    ELSE <<seq[1]>> \o Dedup(Tail(seq))

RECURSIVE BinarySearchIn(_, _, _, _)
BinarySearchIn(seq, x, lo, hi) ==
    IF lo > hi THEN NoneOpt
    ELSE LET mid == (lo + hi) \div 2
         IN  IF seq[mid] = x THEN Some(mid)
             ELSE IF seq[mid] < x THEN BinarySearchIn(seq, x, mid + 1, hi)
             ELSE BinarySearchIn(seq, x, lo, mid - 1)

\* slice::binary_search on a sorted slice: Ok(index) as Some, Err(_) as None
BinarySearch(seq, x) == BinarySearchIn(seq, x, 1, Len(seq))

RECURSIVE SelectSeq2(_, _)
\* TARGETS.iter().copied().filter(|&t| t != HOST_TARGET)
SelectSeq2(seq, drop) ==
    IF seq = <<>> THEN <<>>
    ELSE IF Head(seq) = drop THEN SelectSeq2(Tail(seq), drop)
    ELSE <<Head(seq)>> \o SelectSeq2(Tail(seq), drop)

\* struct Metadata, the fields Metadata::targets reads
Metadata(default_target, targets) ==
    [default_target |-> default_target, targets |-> targets]

\* default_target, then the declared targets or TARGETS
AllTargets(m) ==
    LET first == IF m.default_target.some THEN <<m.default_target.v>> ELSE <<>>
    IN  IF m.targets.some THEN first \o m.targets.v
        ELSE IF first = <<>>
             THEN <<HOST_TARGET>> \o SelectSeq2(TARGETS, HOST_TARGET)
        ELSE first \o TARGETS

RemoveLanding_Skip(sorted, landing_page) == sorted

\* if let Ok(index) = all_targets.binary_search(&landing_page) { swap_remove(index) }
RemoveLanding(sorted, landing_page) ==
    LET found == BinarySearch(sorted, landing_page)
    IN  IF found.some THEN SwapRemove(sorted, found.v) ELSE sorted

\* Metadata::targets
Targets(m) ==
    LET all_targets == AllTargets(m)
        landing_page == IF all_targets = <<>> THEN HOST_TARGET ELSE all_targets[1]
        rest == IF all_targets = <<>> THEN <<>> ELSE SwapRemove(all_targets, 1)
    IN  [landing |-> landing_page,
         others |-> RemoveLanding(Dedup(Sort(rest)), landing_page)]

RECURSIVE SeqsUpTo(_, _)
\* the sequences over S of length at most n
SeqsUpTo(S, n) ==
    IF n = 0 THEN {<<>>}
    ELSE LET shorter == SeqsUpTo(S, n - 1)
         IN  shorter \cup {Append(q, x) : q \in shorter, x \in S}

Metadatas ==
    {Metadata(d, t) :
        d \in {NoneOpt} \cup {Some(x) : x \in TargetUniverse},
        t \in {NoneOpt} \cup {Some(q) : q \in SeqsUpTo(TargetUniverse, MaxTargetsLen)}}

\* a call of Metadata::targets on the metadata read from a manifest
Metadata_targets ==
    /\ ~md.done
    /\ md' = [md EXCEPT !.done = TRUE, !.result = Targets(md.metadata)]
    /\ UNCHANGED <<storageVars, build, db, uploaded, tc, dm>>

InitTargets ==
    /\ StorageOff
    /\ BuilderOff
    /\ tc = Off
    /\ dm = Off
    /\ \E m \in Metadatas :
          md = [metadata |-> m, done |-> FALSE, result |-> [landing |-> 0, others |-> <<>>]]

NextTargets == Metadata_targets

SpecTargets == InitTargets /\ [][NextTargets]_vars

\* C18: Metadata::targets returns (landing, others) where landing is default_target
\* if set, else the first of targets if targets is non-empty, else HOST_TARGET;
\* others is, as a set, the declared targets (all of TARGETS when targets is unset)
\* without landing; others has no duplicates and never holds landing; targets = []
\* gives empty others.
C18_SelectTargets ==
    md.done =>
        LET m == md.metadata
            landing == md.result.landing
            result_others == md.result.others
            declared == IF m.targets.some THEN Range(m.targets.v) ELSE Range(TARGETS)
        IN  /\ landing = IF m.default_target.some THEN m.default_target.v
                         ELSE IF m.targets.some /\ m.targets.v # <<>> THEN m.targets.v[1]
                         ELSE HOST_TARGET
            /\ Range(result_others) = declared \ {landing}
            /\ Cardinality(Range(result_others)) = Len(result_others)
            /\ landing \notin Range(result_others)
            /\ (m.targets.some /\ m.targets.v = <<>>) => result_others = <<>>

\* default_target is set and is also declared twice among three targets
C18_Witness ==
    /\ md.done
    /\ md.metadata.default_target.some
    /\ md.metadata.targets.some
    /\ Len(md.metadata.targets.v) = 3
    /\ Cardinality(Range(md.metadata.targets.v)) = 2
    /\ md.metadata.default_target.v \in Range(md.metadata.targets.v)
    /\ Len(md.result.others) = 1

----------------------------------------------------------------------------
(* RustwideBuilder::update_toolchain (src/src/docbuilder/rustwide_builder.rs) *)

\* calls of update_toolchain per behaviour
MaxUpdates == 2

\* the tier-one targets kept installed: TARGETS without i686-apple-darwin
DEFAULT_TARGETS == {2, 3, 4, 5, 6}

\* rustc versions: 0 stands for the empty String of RustwideBuilder::init
RustcVersions == {1, 2}

\* targets found installed when the builder starts
InstalledAtStart ==
    {{}, {0}, {0, 1, HOST_TARGET}, DEFAULT_TARGETS, DEFAULT_TARGETS \cup {1}, {2, HOST_TARGET}}

\* targets a crate may ask for that are not tier one (prepare_command installs them)
ExtraTargets == {0, 1}

ToRemove_All(installed_targets) == installed_targets

\* the installed targets for which targets_to_install.remove(&target) is false
ToRemove(installed_targets) == installed_targets \ DEFAULT_TARGETS

\* what is left of targets_to_install after the loop over installed_targets
ToInstall(installed_targets) == DEFAULT_TARGETS \ installed_targets

NeedsBootstrap_OnlyKnown(old_version, rustc_version) ==
    old_version.some /\ old_version.v # rustc_version

\* if old_version.as_deref() != Some(&self.rustc_version)
NeedsBootstrap(old_version, rustc_version) == old_version # Some(rustc_version)

TcReturn(t, res) == [t EXCEPT !.pc = "idle", !.res = res]

\* update_toolchain up to the loop over installed_targets
update_toolchain ==
    /\ tc.pc = "idle"
    /\ tc.calls < MaxUpdates
    /\ \E detected \in BOOLEAN, listed \in {"Ok", "Err"} :
          LET old_version == IF tc.toolchain /\ detected THEN Some(tc.version) ELSE NoneOpt
              installed_targets == IF tc.toolchain THEN tc.installed ELSE {}
              t == [tc EXCEPT !.calls = @ + 1, !.old_version = old_version,
                              !.start_installed = installed_targets,
                              !.removed = {}, !.added = {}, !.install_done = FALSE,
                              !.late_removal = FALSE, !.early_add = FALSE,
                              !.bootstraps = 0, !.res = "none"]
          IN  tc' = IF tc.toolchain /\ listed = "Err"
                    THEN TcReturn(t, "Err")
                    ELSE [t EXCEPT !.pc = "remove",
                                   !.to_remove = ToRemove(installed_targets),
                                   !.to_install = ToInstall(installed_targets)]
    /\ UNCHANGED <<storageVars, build, db, uploaded, md, dm>>

\* self.toolchain.remove_target(&self.workspace, &target)?
RemoveTarget ==
    /\ tc.pc = "remove"
    /\ tc.to_remove # {}
    /\ \E target \in tc.to_remove, ok \in BOOLEAN :
          tc' = IF ok
                THEN [tc EXCEPT !.to_remove = @ \ {target},
                                !.installed = @ \ {target},
                                !.removed = @ \cup {target},
                                !.late_removal = @ \/ tc.install_done]
                ELSE TcReturn(tc, "Err")
    /\ UNCHANGED <<storageVars, build, db, uploaded, md, dm>>

\* self.toolchain.install(&self.workspace)?: installs the toolchain or moves it to
\* the version the channel is at
Install ==
    /\ tc.pc = "remove"
    /\ tc.to_remove = {}
    /\ \E ok \in BOOLEAN, v \in RustcVersions :
          /\ v >= tc.version
          /\ tc' = IF ok
                   THEN [tc EXCEPT !.pc = "add", !.toolchain = TRUE, !.version = v,
                                   !.installed = IF tc.toolchain THEN @ ELSE {HOST_TARGET},
                                   !.install_done = TRUE]
                   ELSE TcReturn(tc, "Err")
    /\ UNCHANGED <<storageVars, build, db, uploaded, md, dm>>

\* self.toolchain.add_target(&self.workspace, target)?
AddTarget ==
    /\ tc.pc = "add"
    /\ tc.to_install # {}
    /\ \E target \in tc.to_install, ok \in BOOLEAN :
          tc' = IF ok
                THEN [tc EXCEPT !.to_install = @ \ {target},
                                !.installed = @ \cup {target},
                                !.added = @ \cup {target},
                                !.early_add = @ \/ ~tc.install_done]
                ELSE TcReturn(tc, "Err")
    /\ UNCHANGED <<storageVars, build, db, uploaded, md, dm>>

\* add_component("rustfmt") with its error ignored, detect_rustc_version()? and
\* the essential-files bootstrap when the version is not the one found at the start
DetectAndBootstrap ==
    /\ tc.pc = "add"
    /\ tc.to_install = {}
    /\ \E detected \in BOOLEAN, bootstrapped \in BOOLEAN :
          IF ~detected THEN tc' = TcReturn(tc, "Err")
          ELSE LET t == [tc EXCEPT !.rustc_version = tc.version]
               IN  IF NeedsBootstrap(tc.old_version, tc.version)
                   THEN tc' = TcReturn([t EXCEPT !.bootstraps = @ + 1],
                                       IF bootstrapped THEN "Ok" ELSE "Err")
                   ELSE tc' = TcReturn(t, "Ok")
    /\ UNCHANGED <<storageVars, build, db, uploaded, md, dm>>

\* prepare_command: a target that is not a tier one target is installed for the build
prepare_command(target) ==
    /\ tc.pc = "idle"
    /\ tc.toolchain
    /\ tc.res = "Ok"
    /\ target \notin DEFAULT_TARGETS
    /\ target \notin tc.installed
    /\ tc' = [tc EXCEPT !.installed = @ \cup {target}, !.res = "none"]
    /\ UNCHANGED <<storageVars, build, db, uploaded, md, dm>>

InitToolchain ==
    /\ StorageOff
    /\ BuilderOff
    /\ md = Off
    /\ dm = Off
    /\ \E toolchain \in BOOLEAN, installed \in InstalledAtStart :
          tc = [pc |-> "idle", calls |-> 0, res |-> "none",
                toolchain |-> toolchain,
                version |-> IF toolchain THEN 1 ELSE 0,
                installed |-> IF toolchain THEN installed \cup {HOST_TARGET} ELSE {},
                rustc_version |-> 0, old_version |-> NoneOpt,
                start_installed |-> {}, to_remove |-> {}, to_install |-> {},
                removed |-> {}, added |-> {}, install_done |-> FALSE,
                late_removal |-> FALSE, early_add |-> FALSE, bootstraps |-> 0]

NextToolchain ==
    \/ update_toolchain
    \/ RemoveTarget
    \/ Install
    \/ AddTarget
    \/ DetectAndBootstrap
    \/ \E target \in ExtraTargets : prepare_command(target)

SpecToolchain == InitToolchain /\ [][NextToolchain]_vars

\* C16: in update_toolchain no member of DEFAULT_TARGETS is removed, no target is
\* removed after the install/update step and none is added before it, only
\* DEFAULT_TARGETS that were not installed are added, and once the install step is
\* reached every target that was installed and is not in DEFAULT_TARGETS has been
\* removed.
C16_RemoveBeforeUpdate ==
    /\ tc.removed \cap DEFAULT_TARGETS = {}
    /\ ~tc.late_removal
    /\ ~tc.early_add
    /\ tc.added \subseteq DEFAULT_TARGETS \ tc.start_installed
    /\ tc.install_done => tc.removed = tc.start_installed \ DEFAULT_TARGETS
    /\ (tc.install_done /\ (tc.pc # "idle" \/ tc.res # "none")) =>
          tc.installed \cap tc.removed = {}
    /\ (tc.pc = "idle" /\ tc.res = "Ok") =>
          /\ tc.installed = DEFAULT_TARGETS
          /\ tc.added = DEFAULT_TARGETS \ tc.start_installed

\* an update that removed two targets and added tier-one targets has returned Ok
C16_Witness ==
    /\ tc.pc = "idle"
    /\ tc.res = "Ok"
    /\ Cardinality(tc.removed) = 2
    /\ tc.added # {}
    /\ tc.start_installed \cap DEFAULT_TARGETS # {}

\* C17: update_toolchain runs the essential-files bootstrap exactly when the rustc
\* version detected after the update differs from the one detected before it, a
\* version that could not be detected before counting as different; with the
\* version unchanged no bootstrap is run.
C17_BootstrapIffVersionChanged ==
    /\ tc.bootstraps <= 1
    /\ tc.pc # "idle" => tc.bootstraps = 0
    /\ (tc.pc = "idle" /\ tc.calls > 0) =>
          LET unchanged == tc.old_version.some /\ tc.old_version.v = tc.rustc_version
          IN  IF tc.res = "Ok"
              THEN tc.bootstraps = (IF unchanged THEN 0 ELSE 1)
              ELSE tc.bootstraps = 1 => ~unchanged /\ tc.rustc_version = tc.version

\* a second update found the version of the first again and ran no bootstrap
C17_Witness ==
    /\ tc.pc = "idle"
    /\ tc.res = "Ok"
    /\ tc.calls = 2
    /\ tc.old_version = Some(tc.rustc_version)
    /\ tc.bootstraps = 0

----------------------------------------------------------------------------
(* start_daemon (src/src/utils/daemon.rs) and the build queue              *)

\* polls of the registry watcher per behaviour
MaxPolls == 3

\* attempts after which a queue entry is given up
MAX_ATTEMPTS == 5

\* the releases the registry index shows
Releases == {<<"foo", "0.1.0">>, <<"foo", "0.2.0">>, <<"bar", "0.1.0">>}

BuildQueueReaders_Two == {1, 2}

\* the threads named "build queue reader" that start_daemon spawns
BuildQueueReaders == {1}

\* a row of the queue table; UNIQUE(name, version)
QueueRow(release) == [name |-> release[1], version |-> release[2], attempt |-> 0]

Queued(queue) == {<<queue[i].name, queue[i].version>> : i \in DOMAIN queue}

\* the row the builder takes next: the oldest one
NextRow(queue) == queue[1]

RemoveRow(queue, row) ==
    SelectSeq(queue, LAMBDA r : ~(r.name = row.name /\ r.version = row.version))

\* attempt = attempt + 1, and the row is dropped at MAX_ATTEMPTS
FailRow(queue, row) ==
    IF row.attempt + 1 >= MAX_ATTEMPTS THEN RemoveRow(queue, row)
    ELSE [i \in DOMAIN queue |->
             IF queue[i].name = row.name /\ queue[i].version = row.version
             THEN [queue[i] EXCEPT !.attempt = row.attempt + 1]
             ELSE queue[i]]

\* start_daemon: the environment check, then the threads are spawned and the main
\* thread runs the web server
start_daemon(enable_registry_watcher) ==
    /\ dm.process = "starting"
    /\ \E env_ok \in BOOLEAN :
          dm' = IF ~env_ok
                THEN [dm EXCEPT !.process = "exited"]
                ELSE [dm EXCEPT !.process = "running",
                                !.watcher = IF enable_registry_watcher
                                            THEN "running" ELSE "none",
                                !.builder = [b \in BuildQueueReaders |-> "running"],
                                !.web = "running"]
    /\ UNCHANGED <<storageVars, build, db, uploaded, tc, md>>

\* one round of the registry watcher: a new release is put on the queue, or
\* get_new_crates fails and the error is logged
get_new_crates(release) ==
    /\ dm.process = "running"
    /\ dm.watcher = "running"
    /\ dm.polls < MaxPolls
    /\ \E ok \in BOOLEAN :
          dm' = [dm EXCEPT
                   !.polls = @ + 1,
                   !.polls_after_failure = IF \E b \in DOMAIN dm.builder : dm.builder[b] = "dead"
                                           THEN @ + 1 ELSE @,
                   !.queue = IF ok /\ release \notin Queued(@)
                             THEN Append(@, QueueRow(release)) ELSE @]
    /\ UNCHANGED <<storageVars, build, db, uploaded, tc, md>>

\* queue_builder takes the next row and starts build_package for it
TakeNextCrate(b) ==
    /\ dm.process = "running"
    /\ dm.builder[b] = "running"
    /\ dm.holding[b] = {}
    /\ dm.queue # <<>>
    /\ dm' = [dm EXCEPT !.holding[b] = {NextRow(dm.queue)}]
    /\ UNCHANGED <<storageVars, build, db, uploaded, tc, md>>

\* build_package has returned: Ok removes the row, Err counts an attempt
FinishCrate(b) ==
    /\ dm.process = "running"
    /\ dm.builder[b] = "running"
    /\ dm.holding[b] # {}
    /\ \E row \in dm.holding[b], ok \in BOOLEAN :
          dm' = [dm EXCEPT !.holding[b] = {},
                           !.queue = IF ok THEN RemoveRow(@, row) ELSE FailRow(@, row)]
    /\ UNCHANGED <<storageVars, build, db, uploaded, tc, md>>

\* queue_builder(..).unwrap() inside the spawned thread: the panic unwinds and ends
\* that thread
BuilderFailure(d, b) == [d EXCEPT !.builder[b] = "dead", !.holding[b] = {}]

\* queue_builder returns Err
QueueBuilderErr(b) ==
    /\ dm.process = "running"
    /\ dm.builder[b] = "running"
    /\ dm' = BuilderFailure(dm, b)
    /\ UNCHANGED <<storageVars, build, db, uploaded, tc, md>>

\* Server::start returns: start_daemon returns and the process ends
ServerReturns ==
    /\ dm.process = "running"
    /\ dm' = [dm EXCEPT !.process = "exited", !.web = "stopped"]
    /\ UNCHANGED <<storageVars, build, db, uploaded, tc, md>>

InitDaemon ==
    /\ StorageOff
    /\ BuilderOff
    /\ tc = Off
    /\ md = Off
    /\ dm = [process |-> "starting", watcher |-> "none", web |-> "none",
             builder |-> [b \in BuildQueueReaders |-> "none"],
             holding |-> [b \in BuildQueueReaders |-> {}],
             queue |-> <<>>, polls |-> 0, polls_after_failure |-> 0]

NextDaemon ==
    \/ \E enable_registry_watcher \in BOOLEAN : start_daemon(enable_registry_watcher)
    \/ \E release \in Releases : get_new_crates(release)
    \/ \E b \in BuildQueueReaders : TakeNextCrate(b)
    \/ \E b \in BuildQueueReaders : FinishCrate(b)
    \/ \E b \in BuildQueueReaders : QueueBuilderErr(b)
    \/ ServerReturns

SpecDaemon == InitDaemon /\ [][NextDaemon]_vars

C20_BuilderFailureEndsProcess ==
    (\E b \in DOMAIN dm.builder : dm.builder[b] = "dead" /\ dm.polls_after_failure > 0) =>
        dm.process = "exited"

\* ---------------------------------------------------------------------------
\* RustwideBuilder::build_package and the database rows it records
\* (docbuilder/rustwide_builder.rs, db/add_package.rs, db/migrate.rs)
\* ---------------------------------------------------------------------------

\* number of build_package calls explored
MaxBuilds == 3

\* Limits::default().targets
DEFAULT_LIMIT_TARGETS == 10

\* limits.targets(): the default or a sandbox_overrides.max_targets of 0
LimitsTargets == {0, DEFAULT_LIMIT_TARGETS}

BuildNames == {"foo", "bar"}
BuildVersions == {1}

\* [package.metadata.docs.rs] of the crates built: host default target alone,
\* a cross-compiled default target alone, and each of them with one extra target
BuildMetadatas ==
    { Metadata(NoneOpt, Some(<<>>)),
      Metadata(Some(2), Some(<<>>)),
      Metadata(NoneOpt, Some(<<HOST_TARGET, 5>>)),
      Metadata(Some(2), Some(<<5>>)) }

TakeTargets_All(other_targets, n) == other_targets

\* other_targets.into_iter().take(limits.targets())
TakeTargets(other_targets, n) == SubSeq(other_targets, 1, Min(n, Len(other_targets)))

\* blob prefixes written by add_path_into_database
SourcesPrefix(name, version) == <<"sources", name, version>>
RustdocPrefix(name, version) == <<"rustdoc", name, version>>

\* the query of should_build
HasSuccessfulBuild(d, name, version) ==
    \E c \in d.crates, r \in d.releases, b \in d.builds :
        /\ c.id = r.crate_id
        /\ r.id = b.rid
        /\ c.name = name
        /\ r.version = version
        /\ b.build_status

should_build_Always(skip_build_if_exists, d, name, version) == TRUE

should_build(skip_build_if_exists, d, name, version) ==
    IF skip_build_if_exists THEN ~HasSuccessfulBuild(d, name, version) ELSE TRUE

is_blacklisted(d, name) == name \in d.blacklist

\* SELECT id FROM crates WHERE name = $1
CrateRows(d, name) == {c \in d.crates : c.name = name}

\* SELECT id FROM releases WHERE crate_id = $1 AND version = $2
ReleaseRows(d, crate_id, version) ==
    {r \in d.releases : r.crate_id = crate_id /\ r.version = version}

initialize_package_in_database_AlwaysInsert(d, name) ==
    [db |-> [d EXCEPT !.crates = @ \cup {[id |-> d.crate_seq, name |-> name, versions |-> {}]},
                      !.crate_seq = @ + 1],
     crate_id |-> d.crate_seq]

\* the crates row of name, inserted if it does not exist; returns the id
initialize_package_in_database(d, name) ==
    IF CrateRows(d, name) = {}
    THEN [db |-> [d EXCEPT !.crates = @ \cup {[id |-> d.crate_seq, name |-> name,
                                                versions |-> {}]},
                           !.crate_seq = @ + 1],
          crate_id |-> d.crate_seq]
    ELSE [db |-> d, crate_id |-> (CHOOSE c \in CrateRows(d, name) : TRUE).id]

ReleaseRow(id, crate_id, version, r) ==
    [id |-> id, crate_id |-> crate_id, version |-> version, yanked |-> r.yanked,
     build_status |-> r.successful, rustdoc_status |-> r.has_docs,
     doc_targets |-> r.doc_targets, by |-> r.by]

\* INSERT INTO releases ... RETURNING id, or UPDATE releases ... WHERE crate_id
\* and version match; returns the id of the row
UpsertRelease(d, crate_id, version, r) ==
    LET rows == ReleaseRows(d, crate_id, version)
    IN  IF rows = {}
        THEN [db |-> [d EXCEPT !.releases = @ \cup {ReleaseRow(d.release_seq, crate_id, version, r)},
                               !.release_seq = @ + 1],
              release_id |-> d.release_seq]
        ELSE [db |-> [d EXCEPT !.releases =
                         {IF x \in rows THEN ReleaseRow(x.id, crate_id, version, r) ELSE x : x \in @}],
              release_id |-> (CHOOSE x \in rows : TRUE).id]

\* INSERT INTO keyword_rels / author_rels (rid, ..): errors of the insert ignored
AddRelations(d, release_id) == [d EXCEPT !.rels = @ \cup {release_id}]

\* UPDATE crates SET versions = $1 WHERE id = $2, the version pushed if not found
UpdateVersions(d, crate_id, version) ==
    [d EXCEPT !.crates = {IF c.id = crate_id
                          THEN [c EXCEPT !.versions = @ \cup {version}] ELSE c : c \in @}]

\* the doc_coverage row of the release
add_doc_coverage(d, release_id) == [d EXCEPT !.doc_coverage = @ \cup {release_id}]

\* INSERT INTO builds (rid, .., build_status, output)
add_build_into_database(d, release_id, successful, build_log) ==
    [d EXCEPT !.builds = @ \cup {[id |-> d.build_seq, rid |-> release_id,
                                  build_status |-> successful, output |-> build_log]},
              !.build_seq = @ + 1]

\* how a call can end short of a result: an error of the environment
\* ("infrastructure": database, storage, toolchain, workspace, file system), of the
\* default target's coverage run, of an extra target's coverage run, or of the
\* rename of target/{target}/doc
Faults == {"none", "infrastructure", "coverage", "extra_coverage", "rename"}

\* the call returns: its locals are dropped
BuildReturn(b, res, fault) ==
    [b EXCEPT !.pc = "idle", !.res = res, !.fault = fault,
              !.has_docs = FALSE, !.coverage = FALSE, !.successful_targets = {},
              !.others = <<>>, !.default_target = HOST_TARGET, !.yanked = FALSE,
              !.crate_id = 0, !.release_id = 0]

BuildVarsOff == <<storageVars, tc, md, dm>>

\* RustwideBuilder::set_skip_build_if_exists
set_skip_build_if_exists(should) ==
    /\ build.pc = "idle"
    /\ build' = [build EXCEPT !.skip_build_if_exists = should]
    /\ UNCHANGED <<db, uploaded, BuildVarsOff>>

\* the step of build_package's prologue that fails, "run" if none does
PrologueSteps == {"pool", "query", "toolchain", "fetch", "run"}

\* build_package up to the start of the sandboxed build: the connection, should_build,
\* update_toolchain, is_blacklisted, the limits, the fetch and the crate's metadata
build_package(name, version) ==
    /\ build.pc = "idle"
    /\ build.calls < MaxBuilds
    /\ \E step \in PrologueSteps :
       \E m \in IF step = "run" THEN BuildMetadatas ELSE {Metadata(NoneOpt, Some(<<>>))},
          limit \in IF step = "run" THEN LimitsTargets ELSE {DEFAULT_LIMIT_TARGETS} :
          LET b == [build EXCEPT !.calls = @ + 1, !.name = name, !.version = version,
                                 !.res = "none", !.fault = "none",
                                 !.toolchain_updated = FALSE,
                                 !.default_ran = FALSE, !.successful = FALSE,
                                 !.has_docs = FALSE, !.coverage = FALSE,
                                 !.extra_failed = FALSE, !.recorded = FALSE,
                                 !.successful_targets = {}, !.others = <<>>,
                                 !.default_target = HOST_TARGET, !.yanked = FALSE,
                                 !.crate_id = 0, !.release_id = 0]
              u == [b EXCEPT !.toolchain_updated = TRUE]
          IN  build' =
                IF step = "pool" THEN BuildReturn(b, "Err", "infrastructure")
                ELSE IF build.skip_build_if_exists /\ step = "query"
                     THEN BuildReturn(b, "Err", "infrastructure")
                ELSE IF ~should_build(build.skip_build_if_exists, db, name, version)
                     THEN BuildReturn(b, "Ok(false)", "none")
                ELSE IF step = "toolchain" THEN BuildReturn(u, "Err", "infrastructure")
                ELSE IF is_blacklisted(db, name) THEN BuildReturn(u, "Ok(false)", "none")
                ELSE IF step = "fetch" THEN BuildReturn(u, "Err", "infrastructure")
                ELSE [u EXCEPT !.pc = "default",
                               !.default_target = Targets(m).landing,
                               !.others = TakeTargets(Targets(m).others, limit)]
    /\ UNCHANGED <<db, uploaded, BuildVarsOff>>

\* what a run of execute_build meets: the cargo metadata not loading, the build
\* command failing or timing out, the coverage run failing, a build without a
\* documentation directory, the copy of the documentation failing, or none of these
BuildOutcomes == {"cargo_metadata", "failed", "coverage", "no_docs", "copy", "docs"}

Successful(outcome) == outcome \in {"coverage", "no_docs", "copy", "docs"}

\* execute_build(default_target, true, ..) and the has_docs test that follows it;
\* rename: whether std::fs::rename(target/{target}/doc, target/doc) succeeds
execute_build ==
    /\ build.pc = "default"
    /\ \E outcome \in BuildOutcomes, some_coverage \in BOOLEAN, rename \in BOOLEAN :
          LET successful == Successful(outcome)
              b == [build EXCEPT !.default_ran = TRUE, !.successful = successful]
              has_docs == outcome \in {"copy", "docs"}
          IN  build' =
                IF outcome = "cargo_metadata" THEN BuildReturn(build, "Err", "infrastructure")
                ELSE IF outcome = "coverage" THEN BuildReturn(b, "Err", "coverage")
                ELSE IF build.default_target # HOST_TARGET /\ ~rename
                     THEN BuildReturn(b, "Err", "rename")
                ELSE IF ~has_docs THEN [b EXCEPT !.pc = "sources",
                                                 !.coverage = successful /\ some_coverage]
                ELSE IF outcome = "copy" THEN BuildReturn(b, "Err", "infrastructure")
                ELSE [b EXCEPT !.pc = IF b.others = <<>> THEN "upload_docs" ELSE "targets",
                               !.has_docs = TRUE,
                               !.coverage = some_coverage,
                               !.successful_targets = {b.default_target}]
    /\ UNCHANGED <<db, uploaded, BuildVarsOff>>

\* build_target for the next of the other targets
build_target ==
    /\ build.pc = "targets"
    /\ \E outcome \in BuildOutcomes :
          LET target == Head(build.others)
              b == [build EXCEPT !.others = Tail(@),
                                 !.pc = IF Tail(build.others) = <<>> THEN "upload_docs"
                                        ELSE "targets"]
              f == [b EXCEPT !.extra_failed = TRUE]
          IN  build' =
                IF outcome = "cargo_metadata" THEN BuildReturn(build, "Err", "infrastructure")
                ELSE IF outcome = "coverage" THEN BuildReturn(f, "Err", "extra_coverage")
                ELSE IF outcome \in {"failed", "no_docs"} THEN f
                ELSE IF outcome = "copy" THEN BuildReturn(b, "Err", "infrastructure")
                ELSE [b EXCEPT !.successful_targets = @ \cup {target}]
    /\ UNCHANGED <<db, uploaded, BuildVarsOff>>

\* upload_docs: add_path_into_database(storage, "rustdoc/{name}/{version}", ..)
upload_docs ==
    /\ build.pc = "upload_docs"
    /\ \E ok \in BOOLEAN :
          IF ok
          THEN /\ uploaded' = uploaded \cup {RustdocPrefix(build.name, build.version)}
               /\ build' = [build EXCEPT !.pc = "sources"]
          ELSE /\ build' = BuildReturn(build, "Err", "infrastructure")
               /\ UNCHANGED uploaded
    /\ UNCHANGED <<db, BuildVarsOff>>

\* add_path_into_database(storage, "sources/{name}/{version}", ..), then the
\* release data of the registry (its default when the registry does not answer)
upload_sources ==
    /\ build.pc = "sources"
    /\ \E ok \in BOOLEAN, yanked \in BOOLEAN :
          IF ok
          THEN /\ uploaded' = uploaded \cup {SourcesPrefix(build.name, build.version)}
               /\ build' = [build EXCEPT !.pc = "crates", !.yanked = yanked]
          ELSE /\ build' = BuildReturn(build, "Err", "infrastructure")
               /\ UNCHANGED uploaded
    /\ UNCHANGED <<db, BuildVarsOff>>

\* add_package_into_database: initialize_package_in_database
InitializePackage ==
    /\ build.pc = "crates"
    /\ \E ok \in BOOLEAN :
          IF ok
          THEN LET r == initialize_package_in_database(db, build.name)
               IN  /\ db' = r.db
                   /\ build' = [build EXCEPT !.pc = "releases", !.crate_id = r.crate_id]
          ELSE /\ build' = BuildReturn(build, "Err", "infrastructure")
               /\ UNCHANGED db
    /\ UNCHANGED <<uploaded, BuildVarsOff>>

\* add_package_into_database: the releases row inserted or updated
UpsertReleaseRow ==
    /\ build.pc = "releases"
    /\ \E ok \in BOOLEAN :
          IF ok
          THEN LET r == UpsertRelease(db, build.crate_id, build.version,
                                      [yanked |-> build.yanked, successful |-> build.successful,
                                       has_docs |-> build.has_docs,
                                       doc_targets |-> build.successful_targets,
                                       by |-> build.calls])
               IN  /\ db' = r.db
                   /\ build' = [build EXCEPT !.pc = "relations", !.release_id = r.release_id]
          ELSE /\ build' = BuildReturn(build, "Err", "infrastructure")
               /\ UNCHANGED db
    /\ UNCHANGED <<uploaded, BuildVarsOff>>

\* add_package_into_database: add_keywords / add_authors / add_owners_into_database
AddRelationRows ==
    /\ build.pc = "relations"
    /\ \E ok \in BOOLEAN :
          IF ok
          THEN /\ db' = AddRelations(db, build.release_id)
               /\ build' = [build EXCEPT !.pc = "versions"]
          ELSE /\ build' = BuildReturn(build, "Err", "infrastructure")
               /\ UNCHANGED db
    /\ UNCHANGED <<uploaded, BuildVarsOff>>

\* add_package_into_database: the versions of the crates row; the error of the
\* UPDATE is dropped, the one of the SELECT is returned
UpdateCrateVersions ==
    /\ build.pc = "versions"
    /\ \E select \in BOOLEAN, update \in BOOLEAN :
          IF select
          THEN /\ db' = IF update THEN UpdateVersions(db, build.crate_id, build.version) ELSE db
               /\ build' = [build EXCEPT !.pc = IF build.coverage THEN "coverage" ELSE "builds"]
          ELSE /\ build' = BuildReturn(build, "Err", "infrastructure")
               /\ UNCHANGED db
    /\ UNCHANGED <<uploaded, BuildVarsOff>>

\* if let Some(doc_coverage) = res.result.doc_coverage { add_doc_coverage(..)? }
AddDocCoverage ==
    /\ build.pc = "coverage"
    /\ \E ok \in BOOLEAN :
          IF ok
          THEN /\ db' = add_doc_coverage(db, build.release_id)
               /\ build' = [build EXCEPT !.pc = "builds"]
          ELSE /\ build' = BuildReturn(build, "Err", "infrastructure")
               /\ UNCHANGED db
    /\ UNCHANGED <<uploaded, BuildVarsOff>>

\* add_build_into_database(&mut conn, release_id, &res.result)?
AddBuild ==
    /\ build.pc = "builds"
    /\ \E ok \in BOOLEAN :
          IF ok
          THEN /\ db' = add_build_into_database(db, build.release_id, build.successful,
                                                build.calls)
               /\ build' = [build EXCEPT !.pc = "crate_data", !.recorded = TRUE,
                                         !.completed = @ \cup
                                             {[name |-> build.name, version |-> build.version,
                                               release_id |-> build.release_id,
                                               build |-> build.calls]}]
          ELSE /\ build' = BuildReturn(build, "Err", "infrastructure")
               /\ UNCHANGED db
    /\ UNCHANGED <<uploaded, BuildVarsOff>>

\* update_crate_data_in_database, the purge of the build directory and of the
\* cached crate, then Ok(res.result.successful)
FinishBuild ==
    /\ build.pc = "crate_data"
    /\ \E crate_data \in BOOLEAN, purge \in BOOLEAN :
          build' = IF ~crate_data THEN BuildReturn(build, "Err", "infrastructure")
                   ELSE IF ~purge THEN BuildReturn(build, "Err", "infrastructure")
                   ELSE BuildReturn(build, IF build.successful THEN "Ok(true)" ELSE "Ok(false)",
                                    "none")
    /\ UNCHANGED <<db, uploaded, BuildVarsOff>>

\* the tables after the migrations, with one blacklisted crate name
EmptyDb ==
    [crates |-> {}, releases |-> {}, rels |-> {}, doc_coverage |-> {}, builds |-> {},
     blacklist |-> {"bar"}, crate_seq |-> 1, release_seq |-> 1, build_seq |-> 1]

\* RustwideBuilder::init
InitBuild ==
    /\ StorageOff
    /\ tc = Off
    /\ md = Off
    /\ dm = Off
    /\ uploaded = {}
    /\ db = EmptyDb
    /\ build = [pc |-> "idle", calls |-> 0, skip_build_if_exists |-> FALSE, res |-> "none",
                fault |-> "none", name |-> "foo", version |-> 1,
                toolchain_updated |-> FALSE, default_ran |-> FALSE,
                successful |-> FALSE, has_docs |-> FALSE, coverage |-> FALSE,
                extra_failed |-> FALSE, recorded |-> FALSE, successful_targets |-> {},
                others |-> <<>>, default_target |-> HOST_TARGET, yanked |-> FALSE,
                crate_id |-> 0, release_id |-> 0, completed |-> {}]

NextBuild ==
    \/ \E should \in BOOLEAN : set_skip_build_if_exists(should)
    \/ \E name \in BuildNames, version \in BuildVersions : build_package(name, version)
    \/ execute_build
    \/ build_target
    \/ upload_docs
    \/ upload_sources
    \/ InitializePackage
    \/ UpsertReleaseRow
    \/ AddRelationRows
    \/ UpdateCrateVersions
    \/ AddDocCoverage
    \/ AddBuild
    \/ FinishBuild

SpecBuild == InitBuild /\ [][NextBuild]_vars

\* the releases rows of (name, version)
ReleasesOf(d, name, version) ==
    {r \in d.releases : \E c \in CrateRows(d, name) : r.crate_id = c.id /\ r.version = version}

BuildReturned == build.pc = "idle" /\ build.res # "none"

\* C11: a build_package call whose default-target build failed in the sandbox, the
\* default target being the host or a cross-compiled one, returns Ok(false) with the
\* sources uploaded under sources/{name}/{version}, the releases row written and a
\* builds row with build_status = false and the log of this build.
C11_FailedBuildRecorded ==
    (BuildReturned /\ build.default_ran /\ ~build.successful
        /\ build.fault # "infrastructure") =>
        /\ build.res = "Ok(false)"
        /\ SourcesPrefix(build.name, build.version) \in uploaded
        /\ \E r \in ReleasesOf(db, build.name, build.version) :
              /\ r.by = build.calls
              /\ ~r.build_status
              /\ \E b \in db.builds :
                    b.rid = r.id /\ ~b.build_status /\ b.output = build.calls

\* the same for the failed builds that did not end at the rename of
\* target/{target}/doc
FailedBuildRecordedUnlessRename ==
    (BuildReturned /\ build.default_ran /\ ~build.successful
        /\ build.fault \notin {"infrastructure", "rename"}) =>
        /\ build.res = "Ok(false)"
        /\ SourcesPrefix(build.name, build.version) \in uploaded
        /\ \E r \in ReleasesOf(db, build.name, build.version) :
              /\ r.by = build.calls
              /\ \E b \in db.builds :
                    b.rid = r.id /\ ~b.build_status /\ b.output = build.calls

\* C12: when the default build succeeded and the build of an extra target failed
\* (command failing or timing out, no doc directory, or its coverage run failing),
\* the call still uploads the sources and writes the releases row and the builds
\* row, with build_status = true.
C12_ExtraTargetFailureRecorded ==
    (BuildReturned /\ build.extra_failed /\ build.fault # "infrastructure") =>
        /\ build.res = "Ok(true)"
        /\ SourcesPrefix(build.name, build.version) \in uploaded
        /\ \E r \in ReleasesOf(db, build.name, build.version) :
              /\ r.by = build.calls
              /\ r.build_status
              /\ \E b \in db.builds :
                    b.rid = r.id /\ b.build_status /\ b.output = build.calls

\* the same for the extra-target failures other than a failing coverage run
ExtraTargetFailureRecordedUnlessCoverage ==
    (BuildReturned /\ build.extra_failed
        /\ build.fault \notin {"infrastructure", "extra_coverage"}) =>
        /\ build.res = "Ok(true)"
        /\ SourcesPrefix(build.name, build.version) \in uploaded
        /\ \E r \in ReleasesOf(db, build.name, build.version) :
              /\ r.by = build.calls
              /\ r.build_status
              /\ \E b \in db.builds :
                    b.rid = r.id /\ b.build_status /\ b.output = build.calls

\* C13: the recording step is atomic: in every state of the database a releases row
\* written by a build comes with the relation rows and the builds row of that
\* build, also while the build is between two statements or after it failed there.
C13_RecordingAtomic ==
    \A r \in db.releases :
        /\ r.id \in db.rels
        /\ \E b \in db.builds : b.rid = r.id /\ b.output = r.by

\* C14: after any number of recorded builds of the same (name, version) there is
\* exactly one crates row for the name and exactly one releases row for the
\* (crate, version), with the id returned to every one of those builds; the builds
\* table holds one row per recorded build, each referencing that release; and when
\* a build has just been recorded the releases row holds that build's values.
C14_OneReleaseRow ==
    /\ \A name \in BuildNames : Cardinality(CrateRows(db, name)) <= 1
    /\ \A c \in db.crates : \A version \in BuildVersions :
          Cardinality(ReleaseRows(db, c.id, version)) <= 1
    /\ \A e \in build.completed :
          /\ Cardinality(CrateRows(db, e.name)) = 1
          /\ Cardinality(ReleasesOf(db, e.name, e.version)) = 1
          /\ \A r \in ReleasesOf(db, e.name, e.version) : r.id = e.release_id
          /\ Cardinality({b \in db.builds : b.output = e.build}) = 1
          /\ \A b \in db.builds : b.output = e.build => b.rid = e.release_id
    /\ \A b \in db.builds : \E e \in build.completed : e.build = b.output
    /\ build.pc = "crate_data" =>
          \A r \in ReleasesOf(db, build.name, build.version) :
              /\ r.yanked = build.yanked
              /\ r.build_status = build.successful
              /\ r.by = build.calls

\* the third build of one release has just been recorded with yanked = true over a
\* row that an earlier build wrote with yanked = false
C14_Witness ==
    /\ build.pc = "crate_data"
    /\ build.yanked
    /\ Cardinality(build.completed) = 3
    /\ Cardinality(db.builds) = 3
    /\ \E r \in ReleasesOf(db, build.name, build.version) : r.yanked /\ r.by = 3

\* C15: a build_package call made with skip_build_if_exists set while a successful
\* builds row exists for (name, version) returns at once, Ok(false) unless the
\* database did not answer, without a toolchain update, a sandbox run, a blob or a
\* change of the database; a call made with the flag unset goes on to the toolchain
\* update whenever it has a database connection.
C15_SkipDoesNoWork ==
    [][(build.pc = "idle" /\ build'.calls = build.calls + 1) =>
          /\ (build.skip_build_if_exists
                /\ HasSuccessfulBuild(db, build'.name, build'.version)) =>
                /\ build'.pc = "idle"
                /\ ~build'.toolchain_updated
                /\ ~build'.default_ran
                /\ db' = db
                /\ uploaded' = uploaded
                /\ build'.res = "Ok(false)" \/ build'.fault = "infrastructure"
          /\ ~build.skip_build_if_exists =>
                build'.toolchain_updated \/ build'.fault = "infrastructure"]_vars

\* the second or a later call has returned Ok(false) before the toolchain update
\* with the flag set and a successful build of the release in the database
C15_Witness ==
    /\ BuildReturned
    /\ build.calls > 1
    /\ build.res = "Ok(false)"
    /\ build.skip_build_if_exists
    /\ ~build.toolchain_updated
    /\ HasSuccessfulBuild(db, build.name, build.version)
    /\ SourcesPrefix(build.name, build.version) \in uploaded

\* ---------------------------------------------------------------------------
\* Limits::for_crate and RustwideBuilder::prepare_sandbox (docbuilder/limits.rs)
\* ---------------------------------------------------------------------------

LimitsVarsOff == <<storageVars, uploaded, tc, md, dm>>

\* Limits::default(), sizes in KB and the timeout in seconds
DefaultLimits ==
    [memory |-> 3 * 1024 * 1024, timeout |-> 15 * 60, targets |-> DEFAULT_LIMIT_TARGETS,
     networking |-> FALSE, max_log_size |-> 100, upload_size |-> 500 * 1024]

\* the columns of a sandbox_overrides row: NULL or a value; networking is the
\* column by which a crate is whitelisted for network access
OverrideRows ==
    [crate_name : {"foo", "bar"},
     max_memory_bytes : {NoneOpt, Some(100)},
     max_targets : {NoneOpt, Some(1)},
     networking : {NoneOpt, Some(TRUE), Some(FALSE)}]

\* SELECT * FROM sandbox_overrides WHERE crate_name = $1
OverridesOf(d, name) == {row \in d.sandbox_overrides : row.crate_name = name}

\* Limits::for_crate: the defaults, overridden by the memory, timeout, targets and
\* upload size of the crate's row
for_crate(d, name) ==
    IF OverridesOf(d, name) = {} THEN DefaultLimits
    ELSE LET row == CHOOSE r \in OverridesOf(d, name) : TRUE
         IN  [DefaultLimits EXCEPT
                 !.memory = IF row.max_memory_bytes.some THEN row.max_memory_bytes.v ELSE @,
                 !.targets = IF row.max_targets.some THEN row.max_targets.v ELSE @]

\* the crate is whitelisted: its override row sets networking
Whitelisted(d, name) ==
    \E row \in OverridesOf(d, name) : row.networking.some /\ row.networking.v

\* an operator inserts, or deletes, the override row of a crate
InsertOverride(row) ==
    /\ build.pc = "idle"
    /\ OverridesOf(db, row.crate_name) = {}
    /\ db' = [db EXCEPT !.sandbox_overrides = @ \cup {row}]
    /\ UNCHANGED <<build, LimitsVarsOff>>

DeleteOverride(name) ==
    /\ build.pc = "idle"
    /\ OverridesOf(db, name) # {}
    /\ db' = [db EXCEPT !.sandbox_overrides = @ \ OverridesOf(db, name)]
    /\ UNCHANGED <<build, LimitsVarsOff>>

\* build_package: let limits = Limits::for_crate(&mut conn, name)?
LoadLimits(name) ==
    /\ build.pc = "idle"
    /\ \E ok \in BOOLEAN :
          build' = IF ok
                   THEN [build EXCEPT !.pc = "limits", !.name = name,
                                      !.limits = for_crate(db, name), !.res = "none",
                                      !.overridden = OverridesOf(db, name) # {},
                                      !.whitelisted = Whitelisted(db, name)]
                   ELSE [build EXCEPT !.name = name, !.res = "Err"]
    /\ UNCHANGED <<db, LimitsVarsOff>>

\* prepare_sandbox(&limits): memory_limit(limits.memory()),
\* enable_networking(limits.networking()); the sandboxed build then runs
prepare_sandbox ==
    /\ build.pc = "limits"
    /\ build' = [build EXCEPT !.pc = "idle", !.res = "Ok",
                              !.sandbox = [memory_limit |-> build.limits.memory,
                                           enable_networking |-> build.limits.networking]]
    /\ UNCHANGED <<db, LimitsVarsOff>>

InitLimits ==
    /\ StorageOff
    /\ uploaded = Off
    /\ tc = Off
    /\ md = Off
    /\ dm = Off
    /\ db = [sandbox_overrides |-> {}]
    /\ build = [pc |-> "idle", name |-> "foo", limits |-> DefaultLimits, res |-> "none",
                overridden |-> FALSE, whitelisted |-> FALSE,
                sandbox |-> [memory_limit |-> DefaultLimits.memory,
                             enable_networking |-> FALSE]]

NextLimits ==
    \/ \E row \in OverrideRows : InsertOverride(row)
    \/ \E name \in {"foo", "bar"} : DeleteOverride(name)
    \/ \E name \in {"foo", "bar"} : LoadLimits(name)
    \/ prepare_sandbox

SpecLimits == InitLimits /\ [][NextLimits]_vars

\* C21: the networking flag passed to the sandbox of a crate's build is off when the
\* crate has no override row and on when its override row whitelists it.
C21_NetworkingFromOverride ==
    (build.pc = "idle" /\ build.res = "Ok") =>
        build.sandbox.enable_networking = build.whitelisted

\* the sandbox of a crate without an override row has networking off
NetworkingOffByDefault ==
    (build.pc = "idle" /\ build.res = "Ok" /\ ~build.overridden) =>
        ~build.sandbox.enable_networking

\* ---------------------------------------------------------------------------
\* Metadata::from_str (docbuilder/metadata.rs)
\* ---------------------------------------------------------------------------

\* TOML values of the keys of [package.metadata.docs.rs]: the key absent, a string,
\* an array of strings, or an array holding a value that is not a string
Absent == [kind |-> "absent"]
Str(v) == [kind |-> "string", v |-> v]
Arr(items) == [kind |-> "array", items |-> items, strings |-> TRUE]
ArrMixed == [kind |-> "array", items |-> <<>>, strings |-> FALSE]

TargetLists == {<<>>, <<2>>, <<HOST_TARGET, 5>>}

ArrayValues == {Absent, Str(2), ArrMixed} \cup {Arr(l) : l \in TargetLists}

\* the manifests read: text that is not TOML, TOML without the docs.rs table, and
\* tables with the keys default-target, targets and extra-targets
Manifests ==
    [parses : BOOLEAN, table : BOOLEAN, default_target : {Absent, Str(2)},
     targets : ArrayValues, extra_targets : ArrayValues]

\* table.get(key).and_then(|v| v.as_str()).map(|v| v.to_owned())
AsStr(value) == IF value.kind = "string" THEN Some(value.v) ELSE NoneOpt

\* table.get(key).and_then(|f| f.as_array())
\*      .and_then(|f| f.iter().map(|v| v.as_str().map(..)).collect())
AsStrArray(value) ==
    IF value.kind = "array" /\ value.strings THEN Some(value.items) ELSE NoneOpt

\* Metadata::from_str: the default Metadata, its fields set from the table
\* package.metadata.docs.rs when the manifest parses and has it
from_str(manifest) ==
    IF ~manifest.parses \/ ~manifest.table THEN Metadata(NoneOpt, NoneOpt)
    ELSE Metadata(AsStr(manifest.default_target), AsStrArray(manifest.extra_targets))

Metadata_from_str ==
    /\ ~md.done
    /\ md' = [md EXCEPT !.done = TRUE, !.result = from_str(md.manifest)]
    /\ UNCHANGED <<storageVars, build, db, uploaded, tc, dm>>

InitManifest ==
    /\ StorageOff
    /\ BuilderOff
    /\ tc = Off
    /\ dm = Off
    /\ \E manifest \in Manifests :
          md = [manifest |-> manifest, done |-> FALSE, result |-> Metadata(NoneOpt, NoneOpt)]

NextManifest == Metadata_from_str

SpecManifest == InitManifest /\ [][NextManifest]_vars

\* C22: a manifest whose [package.metadata.docs.rs] table has the key targets with a
\* list of strings gives Metadata.targets = Some(that list), Some([]) for the empty
\* list; a manifest without the table or without the key gives targets = None.
C22_TargetsKeyRead ==
    md.done =>
        LET m == md.manifest
            has_key == m.parses /\ m.table /\ m.targets.kind = "array" /\ m.targets.strings
        IN  /\ has_key => md.result.targets = Some(m.targets.items)
            /\ (m.parses /\ (~m.table \/ m.targets = Absent)) => md.result.targets = NoneOpt

\* C23: between calls, and as long as nothing was deleted, a locally cached index of
\* an archive path, in whichever Storage instance, equals the decoded content of the
\* remote blob P.index, also after the same path has been archived again.
C23_CacheCoherent ==
    (tx.pc = "idle" /\ ~hist.deleted) =>
        \A inst \in Instances, a \in ArchivePaths :
            RemoteIndexPath(a) \in DOMAIN cache[inst] =>
                LET ix == StorageGet(store, RemoteIndexPath(a), USIZE_MAX)
                IN  ix.ok /\ ix.blob.content = cache[inst][RemoteIndexPath(a)]

\* ---------------------------------------------------------------------------
\* The local archive-index cache under concurrent threads (storage/mod.rs):
\* here cache is the one local_archive_cache_path of a process, tx its threads
\* ---------------------------------------------------------------------------

\* writer calls explored
MaxWrites == 2

CacheReaders == {1, 2}

\* index_content of the archives stored at TestZip: Index::save of an index
IndexContents ==
    { IndexSave(<<[name |-> BarTxt, range |-> FileRange(2, 4), compression |-> Bzip2]>>),
      IndexSave(<<[name |-> BarTxt, range |-> FileRange(2, 3), compression |-> Bzip2],
                  [name |-> BarBazTxt, range |-> FileRange(6, 6), compression |-> Bzip2]>>) }

IndexBlob(index_content) ==
    Blob(RemoteIndexPath(TestZip), compress(index_content, DefaultAlg), DefaultAlg)

CacheVarsOff == <<backend, last, hist, nops, others>>

\* get_index_for on a cache miss: the remote index is fetched
GetIndexMiss ==
    /\ tx.writer.pc = "idle"
    /\ tx.writes < MaxWrites
    /\ RemoteIndexPath(TestZip) \notin DOMAIN cache
    /\ LET got == StorageGet(store, RemoteIndexPath(TestZip), USIZE_MAX)
       IN  tx' = IF got.ok
                 THEN [tx EXCEPT !.writes = @ + 1,
                                 !.writer = [pc |-> "create", op |-> "get_index_for",
                                             content |-> got.blob.content]]
                 ELSE [tx EXCEPT !.writes = @ + 1]
    /\ UNCHANGED <<cache, store, CacheVarsOff>>

\* store_all_in_archive: if local_index_path.exists() { fs::remove_file(..)? }
ArchiveRemoveCached(index_content) ==
    /\ tx.writer.pc = "idle"
    /\ tx.writes < MaxWrites
    /\ tx' = [tx EXCEPT !.writes = @ + 1,
                        !.writer = [pc |-> "create", op |-> "store_all_in_archive",
                                    content |-> index_content]]
    /\ cache' = Remove(cache, {RemoteIndexPath(TestZip)})
    /\ UNCHANGED <<store, CacheVarsOff>>

\* fs::File::create(&local_index_path)?: the file exists, empty
CacheCreate ==
    /\ tx.writer.pc = "create"
    /\ \E ok \in BOOLEAN :
          IF ok
          THEN /\ cache' = Put(cache, RemoteIndexPath(TestZip), <<>>)
               /\ tx' = [tx EXCEPT !.writer.pc = "write"]
          ELSE /\ tx' = [tx EXCEPT !.writer.pc = "idle"]
               /\ UNCHANGED cache
    /\ UNCHANGED <<store, CacheVarsOff>>

\* file.write_all(&index_content)?: one write call, which takes some of the bytes
\* left; after the last one store_all_in_archive uploads the blobs
CacheWrite ==
    /\ tx.writer.pc = "write"
    /\ LET path == RemoteIndexPath(TestZip)
           done == Len(cache[path])
           all == tx.writer.content
       IN  \E n \in 1..(Len(all) - done), ok \in BOOLEAN :
              IF ok
              THEN /\ cache' = Put(cache, path, SubSeq(all, 1, done + n))
                   /\ tx' = [tx EXCEPT !.writer.pc =
                                IF done + n < Len(all) THEN "write"
                                ELSE IF tx.writer.op = "store_all_in_archive" THEN "upload"
                                ELSE "idle"]
              ELSE /\ tx' = [tx EXCEPT !.writer.pc = "idle"]
                   /\ UNCHANGED cache
    /\ UNCHANGED <<store, CacheVarsOff>>

\* store_all_in_archive: self.store_inner(..)? with the archive and its index
CacheUpload ==
    /\ tx.writer.pc = "upload"
    /\ \E ok \in BOOLEAN :
          store' = IF ok THEN Put(store, RemoteIndexPath(TestZip), IndexBlob(tx.writer.content))
                   ELSE store
    /\ tx' = [tx EXCEPT !.writer.pc = "idle"]
    /\ UNCHANGED <<cache, CacheVarsOff>>

\* get_index_for of a reading thread: if local_index_path.exists()
ReaderExists(r) ==
    /\ tx.reader[r].pc = "idle"
    /\ RemoteIndexPath(TestZip) \in DOMAIN cache
    /\ tx' = [tx EXCEPT !.reader[r] = [pc |-> "open", loaded |-> FALSE, bytes |-> <<>>]]
    /\ UNCHANGED <<cache, store, CacheVarsOff>>

\* fs::File::open(local_index_path)? and archive_index::Index::load(&mut file)
ReaderLoad(r) ==
    /\ tx.reader[r].pc = "open"
    /\ tx' = IF RemoteIndexPath(TestZip) \in DOMAIN cache
             THEN [tx EXCEPT !.reader[r] = [pc |-> "idle", loaded |-> TRUE,
                                            bytes |-> cache[RemoteIndexPath(TestZip)]]]
             ELSE [tx EXCEPT !.reader[r] = [pc |-> "idle", loaded |-> FALSE, bytes |-> <<>>]]
    /\ UNCHANGED <<cache, store, CacheVarsOff>>

InitCache ==
    /\ backend = Off /\ last = Off /\ hist = Off /\ nops = 0
    /\ OthersOff
    /\ cache = Empty
    /\ \E index_content \in IndexContents :
          store = Put(Empty, RemoteIndexPath(TestZip), IndexBlob(index_content))
    /\ tx = [writes |-> 0,
             writer |-> [pc |-> "idle", op |-> "none", content |-> <<>>],
             reader |-> [r \in CacheReaders |-> [pc |-> "idle", loaded |-> FALSE, bytes |-> <<>>]]]

NextCache ==
    \/ GetIndexMiss
    \/ \E index_content \in IndexContents : ArchiveRemoveCached(index_content)
    \/ CacheCreate
    \/ CacheWrite
    \/ CacheUpload
    \/ \E r \in CacheReaders : ReaderExists(r)
    \/ \E r \in CacheReaders : ReaderLoad(r)

SpecCache == InitCache /\ [][NextCache]_vars

\* C24: a reader that found the cache file present and loaded it got a whole index
\* that a writer wrote, never an empty or partially written one.
C24_NoPartialIndex ==
    \A r \in CacheReaders :
        tx.reader[r].loaded =>
            /\ tx.reader[r].bytes \in IndexContents
            /\ IndexLoad(tx.reader[r].bytes).ok

\* ---------------------------------------------------------------------------
\* add_keywords_into_database (db/add_package.rs)
\* ---------------------------------------------------------------------------

\* calls of add_package_into_database explored
MaxRecords == 2

\* pkg.keywords of the manifests recorded
KeywordLists == {<<>>, <<"web">>, <<"cli">>, <<"web", "cli">>, <<"Web", "web">>}

\* slugify(&keyword): lower case, as far as these keywords go
Slugify(keyword) == IF keyword = "Web" THEN "web" ELSE keyword

ReleaseIds == {1, 2}

KeywordVarsOff == <<storageVars, uploaded, tc, md, dm>>

\* SELECT id FROM keywords WHERE slug = $1
KeywordRows(d, slug) == {k \in d.keywords : k.slug = slug}

\* the slugs of the keywords related to the release
KeywordsOf(d, release_id) ==
    {k.slug : k \in {x \in d.keywords : <<release_id, x.id>> \in d.keyword_rels}}

\* one turn of the loop of add_keywords_into_database: the keyword's row found or
\* inserted, then INSERT INTO keyword_rels (rid, kid), its error dropped
AddKeywordRow(d, release_id, keyword) ==
    LET slug == Slugify(keyword)
        found == KeywordRows(d, slug)
        keyword_id == IF found # {} THEN (CHOOSE k \in found : TRUE).id ELSE d.keyword_seq
        d1 == IF found # {} THEN d
              ELSE [d EXCEPT !.keywords = @ \cup {[id |-> d.keyword_seq, name |-> keyword,
                                                   slug |-> slug]},
                             !.keyword_seq = @ + 1]
    IN  [d1 EXCEPT !.keyword_rels = @ \cup {<<release_id, keyword_id>>}]

\* add_package_into_database reaches add_keywords_into_database(conn, pkg, release_id)
add_keywords_into_database(release_id, keywords) ==
    /\ build.pc = "idle"
    /\ build.calls < MaxRecords
    /\ build' = [build EXCEPT !.pc = "keywords", !.calls = @ + 1, !.release_id = release_id,
                              !.keywords = keywords, !.pending = keywords, !.res = "none"]
    /\ UNCHANGED <<db, KeywordVarsOff>>

\* for keyword in &pkg.keywords { .. }, a query failing with ? ends the call
AddKeyword ==
    /\ build.pc = "keywords"
    /\ IF build.pending = <<>>
       THEN /\ build' = [build EXCEPT !.pc = "idle", !.res = "Ok"]
            /\ UNCHANGED db
       ELSE \E ok \in BOOLEAN :
              IF ok
              THEN /\ db' = AddKeywordRow(db, build.release_id, Head(build.pending))
                   /\ build' = [build EXCEPT !.pending = Tail(@)]
              ELSE /\ build' = [build EXCEPT !.pc = "idle", !.res = "Err", !.pending = <<>>]
                   /\ UNCHANGED db
    /\ UNCHANGED KeywordVarsOff

InitKeywords ==
    /\ StorageOff
    /\ uploaded = Off
    /\ tc = Off
    /\ md = Off
    /\ dm = Off
    /\ db = [keywords |-> {}, keyword_rels |-> {}, keyword_seq |-> 1]
    /\ build = [pc |-> "idle", calls |-> 0, release_id |-> 1, keywords |-> <<>>,
                pending |-> <<>>, res |-> "none"]

NextKeywords ==
    \/ \E release_id \in ReleaseIds, keywords \in KeywordLists :
          add_keywords_into_database(release_id, keywords)
    \/ AddKeyword

SpecKeywords == InitKeywords /\ [][NextKeywords]_vars

\* C25: after the keywords of a build are recorded for a release, the keyword_rels
\* rows of that release are exactly the keywords of that build's manifest, also
\* when an earlier build of the release recorded other keywords.
C25_KeywordsReplaced ==
    (build.pc = "idle" /\ build.res = "Ok") =>
        KeywordsOf(db, build.release_id) = {Slugify(k) : k \in Range(build.keywords)}

\* the keywords of the build are among the release's relations
KeywordsAdded ==
    (build.pc = "idle" /\ build.res = "Ok") =>
        {Slugify(k) : k \in Range(build.keywords)} \subseteq KeywordsOf(db, build.release_id)

\* ---------------------------------------------------------------------------
\* update_toolchain, add_essential_files and build_package: the toolchain version
\* a build runs with (docbuilder/rustwide_builder.rs)
\* ---------------------------------------------------------------------------

\* calls of update_toolchain and build_package per behaviour
MaxCalls == 3

\* the versions the channel moves through; 0 is no toolchain, and the empty String
ChannelVersions == {1, 2}

EssentialVarsOff == <<storageVars, md, dm>>

EsReturn(t, res) == [t EXCEPT !.pc = "idle", !.res = res]

\* build_package up to self.update_toolchain()?, or update_toolchain called alone;
\* let old_version = self.detect_rustc_version().ok()
EnterUpdate(entry) ==
    /\ tc.pc = "idle"
    /\ tc.calls < MaxCalls
    /\ \E outcome \in {"go", "skip", "Err"}, detected \in BOOLEAN :
          IF entry = "build_package" /\ outcome # "go"
          THEN tc' = EsReturn([tc EXCEPT !.calls = @ + 1, !.entry = entry],
                              IF outcome = "skip" THEN "Ok(false)" ELSE "Err")
          ELSE tc' = [tc EXCEPT !.pc = "install", !.calls = @ + 1, !.entry = entry,
                                !.res = "none",
                                !.old_version = IF tc.toolchain # 0 /\ detected
                                                THEN Some(tc.toolchain) ELSE NoneOpt]
    /\ UNCHANGED <<build, db, uploaded, EssentialVarsOff>>

\* the target loops and self.toolchain.install(&self.workspace)?
EsInstall ==
    /\ tc.pc = "install"
    /\ \E ok \in BOOLEAN, v \in ChannelVersions :
          /\ v >= tc.toolchain
          /\ tc' = IF ok THEN [tc EXCEPT !.pc = "detect", !.toolchain = v]
                   ELSE EsReturn(tc, "Err")
    /\ UNCHANGED <<build, db, uploaded, EssentialVarsOff>>

\* self.rustc_version = self.detect_rustc_version()?; then the comparison with
\* old_version that decides on add_essential_files
EsDetect ==
    /\ tc.pc = "detect"
    /\ \E detected \in BOOLEAN :
          IF ~detected THEN tc' = EsReturn(tc, "Err")
          ELSE LET t == [tc EXCEPT !.rustc_version = tc.toolchain]
               IN  tc' = IF NeedsBootstrap(tc.old_version, tc.toolchain)
                         THEN [t EXCEPT !.pc = "essential"]
                         ELSE IF tc.entry = "build_package" THEN [t EXCEPT !.pc = "build"]
                         ELSE EsReturn(t, "Ok")
    /\ UNCHANGED <<build, db, uploaded, EssentialVarsOff>>

\* add_essential_files up to the copy of the files: the version detected again, the
\* limits, the fetch and the build of the dummy crate, any of which may fail
add_essential_files ==
    /\ tc.pc = "essential"
    /\ \E ok \in BOOLEAN :
          tc' = IF ok THEN [tc EXCEPT !.pc = "store", !.rustc_version = tc.toolchain]
                ELSE EsReturn(tc, "Err")
    /\ UNCHANGED <<build, db, uploaded, EssentialVarsOff>>

\* add_path_into_database(&self.storage, "", &dest)?
StoreEssentialFiles ==
    /\ tc.pc = "store"
    /\ \E ok \in BOOLEAN :
          IF ok THEN /\ uploaded' = uploaded \cup {tc.rustc_version}
                     /\ tc' = [tc EXCEPT !.pc = "config"]
          ELSE /\ tc' = EsReturn(tc, "Err")
               /\ UNCHANGED uploaded
    /\ UNCHANGED <<build, db, EssentialVarsOff>>

\* INSERT INTO config (name, value) VALUES ('rustc_version', $1) ON CONFLICT ..
\* DO UPDATE SET value = $1, then the purges
SetConfigRow ==
    /\ tc.pc = "config"
    /\ \E ok \in BOOLEAN, purged \in BOOLEAN :
          IF ~ok THEN /\ tc' = EsReturn(tc, "Err")
                      /\ UNCHANGED db
          ELSE /\ db' = [db EXCEPT !.rustc_version = tc.rustc_version]
               /\ tc' = IF ~purged THEN EsReturn(tc, "Err")
                        ELSE IF tc.entry = "build_package" THEN [tc EXCEPT !.pc = "build"]
                        ELSE EsReturn(tc, "Ok")
    /\ UNCHANGED <<build, uploaded, EssentialVarsOff>>

\* the rest of build_package: the documentation build, run with the toolchain and
\* recorded with self.rustc_version
ExecuteBuild ==
    /\ tc.pc = "build"
    /\ build' = [executed |-> TRUE, rustc_version |-> tc.rustc_version,
                 essential_files |-> tc.rustc_version \in uploaded,
                 config |-> db.rustc_version]
    /\ tc' = EsReturn(tc, "Ok(true)")
    /\ UNCHANGED <<db, uploaded, EssentialVarsOff>>

\* a builder starts without a toolchain, or with the one whose essential files an
\* earlier run stored
InitEssential ==
    /\ StorageOff
    /\ md = Off
    /\ dm = Off
    /\ build = [executed |-> FALSE, rustc_version |-> 0, essential_files |-> FALSE,
                config |-> 0]
    /\ \E toolchain \in {0, 1} :
          /\ tc = [pc |-> "idle", calls |-> 0, entry |-> "none", res |-> "none",
                   toolchain |-> toolchain, rustc_version |-> 0, old_version |-> NoneOpt]
          /\ uploaded = IF toolchain = 0 THEN {} ELSE {toolchain}
          /\ db = [rustc_version |-> toolchain]

NextEssential ==
    \/ \E entry \in {"update_toolchain", "build_package"} : EnterUpdate(entry)
    \/ EsInstall
    \/ EsDetect
    \/ add_essential_files
    \/ StoreEssentialFiles
    \/ SetConfigRow
    \/ ExecuteBuild

SpecEssential == InitEssential /\ [][NextEssential]_vars

\* C26: a documentation build runs with toolchain version V only if the essential
\* files for V are in the blob store and the config row rustc_version is V, after
\* any sequence of update_toolchain and build_package calls.
C26_BuildHasEssentialFiles ==
    build.executed =>
        /\ build.essential_files
        /\ build.config = build.rustc_version

\* a build runs with the version the toolchain is at
BuildUsesInstalledVersion ==
    build.executed => (build.rustc_version # 0 /\ build.rustc_version <= tc.toolchain)

\* ---------------------------------------------------------------------------
\* add_path_into_database (db/file.rs): the upload loop
\* ---------------------------------------------------------------------------

\* the literal of `if attempts > 3`
UploadRetryLimit == 3

\* what get_file_list finds under the path
UploadFileLists == {<<>>, <<"index.html">>, <<"index.html", "main.css">>}

UploadVarsOff == <<storageVars, tc, md, dm>>

UpReturn(b, res) == [b EXCEPT !.pc = "idle", !.res = res, !.pending = <<>>, !.trans = {}]

\* add_path_into_database up to the loop over get_file_list(&path)?: the magic
\* cookie, the transaction and s3_client()
add_path_into_database(files, client) ==
    /\ build.pc = "idle"
    /\ build.res # "panic"
    /\ build.calls < MaxCalls
    /\ \E ok \in BOOLEAN :
          build' = IF ~ok THEN UpReturn([build EXCEPT !.calls = @ + 1], "Err")
                   ELSE [build EXCEPT !.pc = "file", !.calls = @ + 1, !.client = client,
                                      !.pending = files, !.trans = {}, !.res = "none",
                                      !.attempts = 0, !.failed = 0, !.puts = [f \in {} |-> 0]]
    /\ UNCHANGED <<db, uploaded, UploadVarsOff>>

\* the head of the loop body: a file that cannot be opened is skipped, a read or the
\* mime detection failing ends the call; with no file left, trans.commit()?
OpenFile ==
    /\ build.pc = "file"
    /\ IF build.pending = <<>>
       THEN \E ok \in BOOLEAN :
              IF ok THEN /\ db' = [db EXCEPT !.files = @ \cup build.trans]
                         /\ build' = UpReturn(build, "Ok")
              ELSE /\ build' = UpReturn(build, "Err")
                   /\ UNCHANGED db
       ELSE /\ \E outcome \in {"open", "skip", "Err"} :
                 build' = IF outcome = "Err" THEN UpReturn(build, "Err")
                          ELSE IF outcome = "skip" THEN [build EXCEPT !.pending = Tail(@)]
                          ELSE IF build.client
                          THEN [build EXCEPT !.pc = "put", !.attempts = 0, !.failed = 0,
                                             !.puts = Head(build.pending) :> 0 @@ @]
                          ELSE [build EXCEPT !.pc = "insert"]
            /\ UNCHANGED db
    /\ UNCHANGED <<uploaded, UploadVarsOff>>

\* one turn of the retry loop: client.put_object(..).sync(); attempts += 1; Ok breaks
\* with None, Err takes a new client and panics when attempts > 3
PutObject ==
    /\ build.pc = "put"
    /\ LET file == Head(build.pending)
           attempts == build.attempts + 1
           b == [build EXCEPT !.attempts = attempts, !.puts[file] = @ + 1]
       IN  \E ok \in BOOLEAN :
             IF ok
             THEN /\ uploaded' = uploaded \cup {file}
                  /\ build' = [b EXCEPT !.pc = "file", !.pending = Tail(@)]
             ELSE /\ build' = IF attempts > UploadRetryLimit
                              THEN UpReturn([b EXCEPT !.failed = @ + 1], "panic")
                              ELSE [b EXCEPT !.failed = @ + 1]
                  /\ UNCHANGED uploaded
    /\ UNCHANGED <<db, UploadVarsOff>>

\* if client.is_none(): the files row inserted or updated in the transaction
InsertFile ==
    /\ build.pc = "insert"
    /\ \E ok \in BOOLEAN :
          build' = IF ok THEN [build EXCEPT !.pc = "file", !.pending = Tail(@),
                                            !.trans = @ \cup {Head(build.pending)}]
                   ELSE UpReturn(build, "Err")
    /\ UNCHANGED <<db, uploaded, UploadVarsOff>>

InitUpload ==
    /\ StorageOff
    /\ tc = Off
    /\ md = Off
    /\ dm = Off
    /\ db = [files |-> {}]
    /\ uploaded = {}
    /\ build = [pc |-> "idle", calls |-> 0, client |-> FALSE, pending |-> <<>>, trans |-> {},
                res |-> "none", attempts |-> 0, failed |-> 0, puts |-> [f \in {} |-> 0]]

\* AWS credentials are in the environment of the process or they are not
NextUpload ==
    \/ \E files \in UploadFileLists, client \in BOOLEAN :
          /\ build.calls > 0 => client = build.client
          /\ add_path_into_database(files, client)
    \/ OpenFile
    \/ PutObject
    \/ InsertFile

SpecUpload == InitUpload /\ [][NextUpload]_vars

\* C27: with object storage configured the upload of a file is given up after 3
\* failed attempts, put_object is invoked at most 3 times for a file, a successful
\* put_object ends the retries, and no files row is written.
C27_UploadGivenUpAfterThree ==
    /\ \A f \in DOMAIN build.puts : build.puts[f] <= UploadRetryLimit
    /\ build.res = "panic" => build.failed = UploadRetryLimit
    /\ build.failed <= UploadRetryLimit
    /\ build.pc = "put" => build.failed = build.attempts
    /\ build.client => (db.files = {} /\ build.trans = {})

\* the loop ends: put_object runs at most UploadRetryLimit + 1 times for a file,
\* the call panics at the failure after the limit, and no row is written
UploadRetriesBounded ==
    /\ \A f \in DOMAIN build.puts : build.puts[f] <= UploadRetryLimit + 1
    /\ build.res = "panic" => build.failed = UploadRetryLimit + 1
    /\ build.pc = "put" => build.failed = build.attempts
    /\ build.client => (db.files = {} /\ build.trans = {})

\* ---------------------------------------------------------------------------
\* build_package: the targets built and the doc_targets recorded
\* (docbuilder/rustwide_builder.rs 312-357, 418-439)
\* ---------------------------------------------------------------------------

\* calls of build_package per behaviour
MaxDocBuilds == 2

\* [package.metadata.docs.rs] of the crates built here: no extra target, three
\* extra targets, a repeated extra target, and no `targets` at all
DocTargetMetadatas ==
    { Metadata(NoneOpt, Some(<<>>)),
      Metadata(Some(2), Some(<<5, 3, 4>>)),
      Metadata(NoneOpt, Some(<<HOST_TARGET, 5, 5, 2>>)),
      Metadata(NoneOpt, NoneOpt) }

\* limits.targets(): the default, or the max_targets of a sandbox_overrides row
TargetLimits == {0, 1, 2, DEFAULT_LIMIT_TARGETS}

DocTargetVarsOff == <<storageVars, uploaded, tc, md, dm>>

PushTarget_Always(successful_targets, target, successful, doc_dir) ==
    Append(successful_targets, target)

\* build_target after execute_build: successful_targets.push(target.to_string())
\* under `if target_res.result.successful` and `if ..join("doc").is_dir()`
PushTarget(successful_targets, target, successful, doc_dir) ==
    IF successful /\ doc_dir THEN Append(successful_targets, target)
    ELSE successful_targets

DtReturn(b, res) ==
    [b EXCEPT !.pc = "idle", !.res = res, !.others = <<>>, !.successful_targets = <<>>]

\* build_package up to the closure: metadata.targets() and the limits of the crate
StartBuild(m, limit) ==
    /\ build.pc = "idle"
    /\ build.calls < MaxDocBuilds
    /\ build' = [pc |-> "default", calls |-> build.calls + 1, res |-> "none",
                 default_target |-> Targets(m).landing,
                 other_targets |-> Targets(m).others, limit |-> limit,
                 others |-> <<>>, has_docs |-> FALSE, successful_targets |-> <<>>,
                 ran |-> <<>>, documented |-> <<>>, failed |-> {}]
    /\ UNCHANGED <<db, DocTargetVarsOff>>

\* execute_build(default_target, true, ..), the has_docs test, copy_docs and the
\* push of res.target
BuildDefault ==
    /\ build.pc = "default"
    /\ \E outcome \in BuildOutcomes :
          build' =
            IF outcome \in {"cargo_metadata", "coverage"} THEN DtReturn(build, "Err")
            ELSE IF outcome \in {"failed", "no_docs"} THEN [build EXCEPT !.pc = "record"]
            ELSE IF outcome = "copy" THEN DtReturn(build, "Err")
            ELSE LET taken == TakeTargets(build.other_targets, build.limit)
                 IN  [build EXCEPT !.pc = IF taken = <<>> THEN "record" ELSE "targets",
                                   !.has_docs = TRUE,
                                   !.others = taken,
                                   !.successful_targets = Append(@, build.default_target)]
    /\ UNCHANGED <<db, DocTargetVarsOff>>

\* one turn of `for target in other_targets.into_iter().take(limits.targets())`:
\* self.build_target(target, ..)?
BuildExtraTarget ==
    /\ build.pc = "targets"
    /\ \E outcome \in BuildOutcomes :
          LET target == Head(build.others)
              successful == Successful(outcome)
              doc_dir == outcome \in {"copy", "docs"}
              b == [build EXCEPT !.others = Tail(@),
                                 !.ran = Append(@, target),
                                 !.pc = IF Tail(build.others) = <<>> THEN "record"
                                        ELSE "targets"]
          IN  build' =
                IF outcome \in {"cargo_metadata", "coverage"} THEN DtReturn(b, "Err")
                ELSE IF outcome = "copy" THEN DtReturn(b, "Err")
                ELSE [b EXCEPT !.successful_targets = PushTarget(@, target, successful, doc_dir),
                               !.documented = IF successful /\ doc_dir THEN Append(@, target)
                                              ELSE @,
                               !.failed = IF successful THEN @ ELSE @ \cup {target}]
    /\ UNCHANGED <<db, DocTargetVarsOff>>

\* upload_docs, the sources, and add_package_into_database(.., successful_targets,
\* ..) writing doc_targets of the release; any of them failing ends the build
RecordDocTargets ==
    /\ build.pc = "record"
    /\ \E ok \in BOOLEAN :
          IF ok
          THEN /\ db' = [recorded |-> TRUE, doc_targets |-> build.successful_targets,
                         default_target |-> build.default_target,
                         has_docs |-> build.has_docs, documented |-> build.documented,
                         failed |-> build.failed]
               /\ build' = DtReturn(build, "Ok")
          ELSE /\ build' = DtReturn(build, "Err")
               /\ UNCHANGED db
    /\ UNCHANGED DocTargetVarsOff

InitDocTargets ==
    /\ StorageOff
    /\ uploaded = Off
    /\ tc = Off
    /\ md = Off
    /\ dm = Off
    /\ db = [recorded |-> FALSE, doc_targets |-> <<>>, default_target |-> HOST_TARGET,
             has_docs |-> FALSE, documented |-> <<>>, failed |-> {}]
    /\ build = [pc |-> "idle", calls |-> 0, res |-> "none",
                default_target |-> HOST_TARGET, other_targets |-> <<>>, limit |-> 0,
                others |-> <<>>, has_docs |-> FALSE, successful_targets |-> <<>>,
                ran |-> <<>>, documented |-> <<>>, failed |-> {}]

NextDocTargets ==
    \/ \E m \in DocTargetMetadatas, limit \in TargetLimits : StartBuild(m, limit)
    \/ BuildDefault
    \/ BuildExtraTarget
    \/ RecordDocTargets

SpecDocTargets == InitDocTargets /\ [][NextDocTargets]_vars

\* C28: the doc_targets recorded for a release are the default target followed by
\* the extra targets whose build succeeded and left a documentation directory, in
\* the order they were built, when the default build produced library docs, and
\* the empty list otherwise; an extra target whose build failed is not among them.
C28_DocTargetsRecorded ==
    db.recorded =>
        /\ db.doc_targets = IF db.has_docs THEN <<db.default_target>> \o db.documented
                            ELSE <<>>
        /\ Range(db.doc_targets) \cap db.failed = {}

\* a release was recorded with two extra targets, after a third one failed
C28_Witness ==
    /\ db.recorded
    /\ Len(db.doc_targets) = 3
    /\ db.failed # {}

\* C29: the extra-target builds of a package are at most limits.targets(), and
\* there is none when the default build produced no documentation.
C29_ExtraBuildsLimited ==
    /\ Len(build.ran) <= build.limit
    /\ ~build.has_docs => build.ran = <<>>
    /\ \A i \in DOMAIN build.ran : build.ran[i] = build.other_targets[i]

\* a build with more extra targets than the limit has built as many as the limit
C29_Witness ==
    /\ build.pc = "record"
    /\ build.limit > 0
    /\ Len(build.other_targets) > build.limit
    /\ Len(build.ran) = build.limit

\* ---------------------------------------------------------------------------
\* FileList::from_path (web/source.rs)
\* ---------------------------------------------------------------------------
\* A path is the sequence of the pieces of its string: "src/lib.rs" is
\* <<"src", "/", "lib", ".rs">>. No piece holds a "/" or begins like another
\* piece, so that prefixes, occurrences and the order of the strings are those of
\* the sequences.

\* entries of releases.files kept in one list
MaxFiles == 3

\* the first byte of each piece, lower-cased for to_lowercase()
PieceCode(piece, lower) ==
    CASE piece = ".cargo-ok" -> 46
      [] piece = ".rs" -> 46
      [] piece = "/" -> 47
      [] piece = "B" -> IF lower THEN 98 ELSE 66
      [] piece = "a" -> 97
      [] piece = "lib" -> 108
      [] piece = "src" -> 115

\* [mime, path] pairs that add_path_into_database lists for a crate's sources
StoredFiles ==
    { <<"text/plain", <<"a">> >>,
      <<"application/octet-stream", <<"B">> >>,
      <<"text/plain", <<".cargo-ok">> >>,
      <<"text/x-c", <<"src", "/", "lib", ".rs">> >>,
      <<"text/plain", <<"src", "/", "a">> >>,
      <<"text/x-c", <<"src", "/", "src", "/", "lib", ".rs">> >> }

\* req_path: empty for the root directory, else a directory with its final "/"
ReqPaths == {<<>>, <<"src", "/">>}

\* the lists of distinct entries of length at most n
RECURSIVE FileSeqs(_)
FileSeqs(n) ==
    IF n = 0 THEN {<<>>}
    ELSE LET shorter == FileSeqs(n - 1)
         IN  shorter \cup {Append(q, f) : q \in shorter, f \in StoredFiles}

DistinctFileSeqs ==
    {q \in FileSeqs(MaxFiles) : \A i, j \in DOMAIN q : i # j => q[i] # q[j]}

\* str::starts_with
StartsWith(s, prefix) ==
    Len(prefix) <= Len(s) /\ SubSeq(s, 1, Len(prefix)) = prefix

RECURSIVE StrReplace(_, _)
\* str::replace(pat, ""): every occurrence of pat is taken out
StrReplace(s, pat) ==
    IF pat = <<>> \/ s = <<>> THEN s
    ELSE IF StartsWith(s, pat)
         THEN StrReplace(SubSeq(s, Len(pat) + 1, Len(s)), pat)
    ELSE <<Head(s)>> \o StrReplace(Tail(s), pat)

RECURSIVE FirstSegment(_)
\* path.split('/').collect()[0]
FirstSegment(s) ==
    IF s = <<>> \/ Head(s) = "/" THEN <<>>
    ELSE <<Head(s)>> \o FirstSegment(Tail(s))

\* path_splited.len() > 1
HasSlash(s) == \E i \in DOMAIN s : s[i] = "/"

\* mime.starts_with("text")
IsTextMime(mime) == mime \in {"text/plain", "text/x-c"}

\* the File built for one entry of releases.files
FileOf(path) ==
    [name |-> FirstSegment(path[1]),
     file_type |-> IF HasSlash(path[1]) THEN "Dir"
                   ELSE IF path[2] /\ path[1] # <<>> /\ path[1][Len(path[1])] = ".rs"
                        THEN "RustSource"
                   ELSE IF path[2] THEN "Text"
                   ELSE "Binary"]

RECURSIVE FilterMap(_, _)
\* files.iter().filter_map(..): .cargo-ok and the paths outside req_path dropped
FilterMap(files, req_path) ==
    IF files = <<>> THEN <<>>
    ELSE LET mime == Head(files)[1]
             path == Head(files)[2]
             rest == FilterMap(Tail(files), req_path)
         IN  IF path = <<".cargo-ok">> THEN rest
             ELSE IF StartsWith(path, req_path)
                  THEN <<FileOf(<<StrReplace(path, req_path), IsTextMime(mime)>>)>> \o rest
             ELSE rest

RECURSIVE StrLess(_, _, _)
\* a < b, byte by byte
StrLess(a, b, lower) ==
    IF b = <<>> THEN FALSE
    ELSE IF a = <<>> THEN TRUE
    ELSE IF PieceCode(Head(a), lower) # PieceCode(Head(b), lower)
         THEN PieceCode(Head(a), lower) < PieceCode(Head(b), lower)
    ELSE StrLess(Tail(a), Tail(b), lower)

\* the comparator of file_list.sort_by: Ordering::Less
FileLess(a, b) ==
    IF a.file_type = "Dir" /\ b.file_type # "Dir" THEN TRUE
    ELSE IF a.file_type # "Dir" /\ b.file_type = "Dir" THEN FALSE
    ELSE StrLess(a.name, b.name, TRUE)

RECURSIVE InsertFile_Sorted(_, _)
InsertFile_Sorted(x, sorted) ==
    IF sorted = <<>> THEN <<x>>
    ELSE IF FileLess(x, Head(sorted)) THEN <<x>> \o sorted
    ELSE <<Head(sorted)>> \o InsertFile_Sorted(x, Tail(sorted))

RECURSIVE SortFiles(_)
\* Vec::sort_by, a stable sort
SortFiles(seq) ==
    IF seq = <<>> THEN <<>>
    ELSE InsertFile_Sorted(seq[Len(seq)], SortFiles(SubSeq(seq, 1, Len(seq) - 1)))

\* FileList::from_path for a release that exists: None for an empty list
from_path(files, req_path) ==
    LET file_list == Dedup(FilterMap(files, req_path))
    IN  IF file_list = <<>> THEN NoneOpt ELSE Some(SortFiles(file_list))

\* a request of the source browser for a directory of the release
FileList_from_path ==
    /\ ~md.done
    /\ md' = [md EXCEPT !.done = TRUE, !.result = from_path(md.files, md.req_path)]
    /\ UNCHANGED <<storageVars, build, db, uploaded, tc, dm>>

InitFileList ==
    /\ StorageOff
    /\ BuilderOff
    /\ tc = Off
    /\ dm = Off
    /\ \E files \in DistinctFileSeqs, req_path \in ReqPaths :
          md = [files |-> files, req_path |-> req_path, done |-> FALSE, result |-> NoneOpt]

NextFileList == FileList_from_path

SpecFileList == InitFileList /\ [][NextFileList]_vars

\* directories come before files, and each of the two groups is in the order of
\* the lower-cased names
DirsFirstByName(list) ==
    \A i, j \in DOMAIN list :
        i < j => /\ ~(list[i].file_type # "Dir" /\ list[j].file_type = "Dir")
                 /\ (list[i].file_type = "Dir" <=> list[j].file_type = "Dir")
                      => ~StrLess(list[j].name, list[i].name, TRUE)

\* C30: the list FileList::from_path returns has no duplicates, each sub-directory
\* once, directories before files, and is otherwise ordered by lower-cased name.
C30_FileListSortedNoDuplicates ==
    (md.done /\ md.result.some) =>
        /\ \A i, j \in DOMAIN md.result.v : i # j => md.result.v[i] # md.result.v[j]
        /\ DirsFirstByName(md.result.v)

\* the list is sorted, directories first, whatever the order of releases.files
FileListSorted ==
    (md.done /\ md.result.some) => DirsFirstByName(md.result.v)

\* a list with two entries of one directory side by side names it once
AdjacentDuplicatesDropped ==
    (md.done /\ md.result.some /\ Len(md.files) = 2 /\ md.req_path = <<>>
       /\ HasSlash(md.files[1][2]) /\ HasSlash(md.files[2][2])) =>
        Len(md.result.v) = 1

====
